---- MODULE Spec2Model ----
(***************************************************************************)
(* A model of crdlib's unit engine: unit descriptors and their algebra     *)
(* (crdlib/properties/units.py), the converter registry and the converters *)
(* (crdlib/properties/units/converters.py) and the physical-property       *)
(* wrappers (crdlib/properties/properties.py).                             *)
(*                                                                         *)
(* The library is synchronous: every action below is one complete call of  *)
(* a library entry point.  `call` records the call that was made, `ret`    *)
(* what it returned or raised, `prop` is the property object the caller    *)
(* currently holds, `_converters` is the module-level registry, `heap` are *)
(* the descriptor objects the caller has built, in the order they were     *)
(* built: an object is known by its place in `heap`.                       *)
(***************************************************************************)
EXTENDS Integers, Sequences, FiniteSets, TLC

VARIABLES _converters, prop, call, ret, heap

vars == <<_converters, prop, call, ret, heap>>

(***************************************************************************)
(* Numbers.  The code computes with Python floats; the model computes the  *)
(* same expressions in exact rational arithmetic.  A number is             *)
(*     n * PRODUCT p^e[p]   (p ranging over PrimeSeq)                      *)
(* with n an integer that no prime of PrimeSeq divides (or n = 0 with all  *)
(* exponents 0), so every rational the code's constants generate has one   *)
(* representation and large powers of ten do not overflow.                 *)
(***************************************************************************)
PrimeSeq == <<2, 3, 5, 7, 17, 23, 31, 127, 193, 211, 523, 607, 1051>>

PrimeSet == {PrimeSeq[i] : i \in DOMAIN PrimeSeq}

ZeroVec == [p \in PrimeSet |-> 0]

Zero == [n |-> 0, e |-> ZeroVec]

One == [n |-> 1, e |-> ZeroVec]

RECURSIVE PExp(_, _)
PExp(n, p) == IF n % p = 0 THEN 1 + PExp(n \div p, p) ELSE 0

RECURSIVE Resid(_, _)
Resid(n, i) ==
    IF i > Len(PrimeSeq) THEN n
    ELSE IF n % PrimeSeq[i] = 0 THEN Resid(n \div PrimeSeq[i], i)
    ELSE Resid(n, i + 1)

FromInt(n) ==
    IF n = 0 THEN Zero
    ELSE [n |-> Resid(n, 1), e |-> [p \in PrimeSet |-> PExp(n, p)]]

RMul(a, b) ==
    IF a.n = 0 \/ b.n = 0 THEN Zero
    ELSE [n |-> a.n * b.n, e |-> [p \in PrimeSet |-> a.e[p] + b.e[p]]]

\* 1 / a, for a whose residue is 1 or -1 (every factor of the converters)
RInv(a) == [n |-> a.n, e |-> [p \in PrimeSet |-> 0 - a.e[p]]]

RDiv(a, b) == RMul(a, RInv(b))

RECURSIVE IntPow(_, _)
IntPow(b, k) == IF k <= 0 THEN 1 ELSE b * IntPow(b, k - 1)

RECURSIVE PrimeProd(_, _)
PrimeProd(e, i) ==
    IF i > Len(PrimeSeq) THEN 1
    ELSE IntPow(PrimeSeq[i], e[PrimeSeq[i]]) * PrimeProd(e, i + 1)

Min(x, y) == IF x <= y THEN x ELSE y

RAdd(a, b) ==
    IF a.n = 0 THEN b
    ELSE IF b.n = 0 THEN a
    ELSE LET m == [p \in PrimeSet |-> Min(a.e[p], b.e[p])]
             x == a.n * PrimeProd([p \in PrimeSet |-> a.e[p] - m[p]], 1)
             y == b.n * PrimeProd([p \in PrimeSet |-> b.e[p] - m[p]], 1)
             s == FromInt(x + y)
         IN  IF s.n = 0 THEN Zero
             ELSE [n |-> s.n, e |-> [p \in PrimeSet |-> s.e[p] + m[p]]]

RNeg(a) == [n |-> 0 - a.n, e |-> a.e]

RSub(a, b) == RAdd(a, RNeg(b))

\* a ** k for an integer k >= 0
RPow(a, k) ==
    IF k = 0 THEN One
    ELSE IF a.n = 0 THEN Zero
    ELSE [n |-> IntPow(a.n, k), e |-> [p \in PrimeSet |-> k * a.e[p]]]

\* the rational n / d written with integers (d's residue is 1)
Q(n, d) == RDiv(FromInt(n), FromInt(d))

(***************************************************************************)
(* The result of a call: a returned value, or a raised exception.          *)
(***************************************************************************)
Ok(v) == [exc |-> "", val |-> v]

Raise(e) == [exc |-> e, val |-> <<>>]

\* k * <a call>: the product, or the exception the call raised
Scale(k, r) == IF r.exc # "" THEN r ELSE Ok(RMul(k, r.val))

(***************************************************************************)
(* Measurement units (crdlib/properties/units/units.py).                   *)
(***************************************************************************)
TemperatureUnit == {"CELCIUS", "KELVIN", "FAHRENHEIT", "RANKINE"}

LengthUnit ==
    {"MILLI_METER", "CENTI_METER", "METER", "KILO_METER", "INCH", "FOOT"}

MassUnit == {"MILLI_GRAM", "GRAM", "KILO_GRAM", "METRIC_TONNE", "POUND"}

AmountUnit == {"MOL", "KILO_MOL"}

TimeUnit == {"MILLI_SECOND", "SECOND", "MINUTE", "HOUR", "DAY"}

PressureUnit == {"MILLI_BAR", "BAR", "PSI", "PASCAL", "KILO_PASCAL"}

EnergyUnit ==
    {"JOULE", "KILO_JOULE", "MEGA_JOULE", "GIGA_JOULE", "CALORIE",
     "KILO_CALORIE", "BTU"}

Members ==
    [TemperatureUnit |-> TemperatureUnit, LengthUnit |-> LengthUnit,
     MassUnit |-> MassUnit, AmountUnit |-> AmountUnit, TimeUnit |-> TimeUnit,
     PressureUnit |-> PressureUnit, EnergyUnit |-> EnergyUnit]

UnitTypes == DOMAIN Members

\* an SI_UNITS that names the gram for the mass units
SI_UNITS_gram ==
    [TemperatureUnit |-> "KELVIN", LengthUnit |-> "METER",
     MassUnit |-> "GRAM", AmountUnit |-> "MOL", TimeUnit |-> "SECOND"]

\* SI_UNITS: the SI unit of each unit class that has one
SI_UNITS ==
    [TemperatureUnit |-> "KELVIN", LengthUnit |-> "METER",
     MassUnit |-> "KILO_GRAM", AmountUnit |-> "MOL", TimeUnit |-> "SECOND"]

AllUnits == UNION {Members[t] : t \in UnitTypes}

\* type(unit): the enumeration a unit is a member of
TypeOf(u) == CHOOSE t \in UnitTypes : u \in Members[t]

(***************************************************************************)
(* Descriptors (crdlib/properties/units.py).  A unit descriptor is a       *)
(* MeasurementUnit, a Dimension or a CompositeDimension; a generic         *)
(* descriptor is a unit class, a GenericDimension or a                     *)
(* GenericCompositeDimension.                                              *)
(***************************************************************************)
Unit(u) == [kind |-> "MeasurementUnit", unit |-> u]

Dimension(u, p) == [kind |-> "Dimension", unit |-> u, power |-> p]

CompositeDimension(num, den) ==
    [kind |-> "CompositeDimension", numerator |-> num, denominator |-> den]

UnitClass(t) == [kind |-> "MeasurementUnitType", unit_type |-> t]

GenericDimension(t, p) ==
    [kind |-> "GenericDimension", unit_type |-> t, power |-> p]

GenericCompositeDimension(num, den) ==
    [kind |-> "GenericCompositeDimension", numerator |-> num,
     denominator |-> den]

Range(s) == {s[i] : i \in DOMAIN s}

\* GenericDimension.__eq__
GenericDimension_eq(a, b) ==
    /\ a.kind = "GenericDimension"
    /\ b.kind = "GenericDimension"
    /\ a.unit_type = b.unit_type
    /\ a.power = b.power

\* GenericCompositeDimension.__eq__: both sides compared as sets
GenericCompositeDimension_eq(a, b) ==
    /\ b.kind = "GenericCompositeDimension"
    /\ Range(a.numerator) = Range(b.numerator)
    /\ Range(a.denominator) = Range(b.denominator)

\* Dimension.to_generic
Dimension_to_generic(d) == GenericDimension(TypeOf(d.unit), d.power)

\* CompositeDimension.to_generic
CompositeDimension_to_generic(c) ==
    GenericCompositeDimension(
        [i \in DOMAIN c.numerator |-> Dimension_to_generic(c.numerator[i])],
        [i \in DOMAIN c.denominator |-> Dimension_to_generic(c.denominator[i])])

\* MeasurementUnit.isinstance
MeasurementUnit_isinstance(d, generic) ==
    /\ generic.kind = "MeasurementUnitType"
    /\ TypeOf(d.unit) = generic.unit_type

\* Dimension.isinstance
Dimension_isinstance(d, generic) ==
    LET g == IF generic.kind = "MeasurementUnitType"
             THEN GenericDimension(generic.unit_type, 1)
             ELSE generic
    IN  /\ g.kind = "GenericDimension"
        /\ d.unit \in Members[g.unit_type]
        /\ d.power = g.power

\* CompositeDimension.isinstance
CompositeDimension_isinstance(c, generic) ==
    /\ generic.kind = "GenericCompositeDimension"
    /\ GenericCompositeDimension_eq(CompositeDimension_to_generic(c), generic)

\* descriptor.isinstance(generic), dispatched on the descriptor's class
IsInstance(d, generic) ==
    CASE d.kind = "MeasurementUnit" -> MeasurementUnit_isinstance(d, generic)
      [] d.kind = "Dimension" -> Dimension_isinstance(d, generic)
      [] d.kind = "CompositeDimension" -> CompositeDimension_isinstance(d, generic)

\* MeasurementUnit.from_descriptor
MeasurementUnit_from_descriptor(d) ==
    IF d.kind = "Dimension" THEN Ok(Unit(d.unit))
    ELSE IF d.kind = "MeasurementUnit" THEN Ok(d)
    ELSE Raise("WrongUnitDescriptorType")

\* Dimension.from_descriptor
Dimension_from_descriptor(d) ==
    IF d.kind = "Dimension" THEN Ok(d)
    ELSE IF d.kind = "MeasurementUnit" THEN Ok(Dimension(d.unit, 1))
    ELSE Raise("WrongUnitDescriptorType")

\* the unit classes that derive from AliasedMeasurementUnit
AliasedUnitTypes == {"PressureUnit", "EnergyUnit"}

\* AliasedMeasurementUnit.from_descriptor: an aliased unit, or the unit of a
\* Dimension of one
AliasedMeasurementUnit_from_descriptor(d) ==
    IF d.kind = "Dimension" /\ TypeOf(d.unit) \in AliasedUnitTypes
    THEN Ok(Unit(d.unit))
    ELSE IF d.kind = "MeasurementUnit" /\ TypeOf(d.unit) \in AliasedUnitTypes
    THEN Ok(d)
    ELSE Raise("WrongUnitDescriptorType")

\* CompositeDimension.from_descriptor
CompositeDimension_from_descriptor(d) ==
    IF d.kind # "CompositeDimension" THEN Raise("WrongUnitDescriptorType")
    ELSE Ok(d)

(***************************************************************************)
(* Converters of the absolute unit families                                *)
(* (crdlib/properties/units/converters.py).                                *)
(***************************************************************************)
_from_milliunit_to_unit == Q(1, 1000)

_from_centiunit_to_unit == Q(1, 100)

_from_kilounit_to_unit == Q(1000, 1)

_from_megaunit_to_unit == Q(1000000, 1)

_from_gigaunit_to_unit == Q(1000000000, 1)

_from_unit_to_milliunit == Q(1000, 1)

_from_unit_to_centiunit == Q(100, 1)

_from_unit_to_kilounit == Q(1, 1000)

_from_unit_to_megaunit == Q(1, 1000000)

_from_unit_to_gigaunit == Q(1, 1000000000)

\* the unit a descriptor that passed isinstance(<unit class>) stands for
UnitOf(d) == MeasurementUnit_from_descriptor(d).val.unit

BAR_TO_PSI == Q(145038, 10000)

BAR_TO_PASCAL == Q(100000, 1)

BAR_TO_KILOPASCAL == Q(100, 1)

\* a get_factor_from_bar that takes the kilopascal constant for Pascal
AliasedPressureUnitConverter_get_factor_from_bar_pascal_slip(to_descriptor) ==
    IF ~IsInstance(to_descriptor, UnitClass("PressureUnit"))
    THEN Raise("InvalidUnitConversion")
    ELSE LET unit == UnitOf(to_descriptor)
         IN  CASE unit = "BAR" -> Ok(One)
               [] unit = "MILLI_BAR" -> Ok(_from_unit_to_milliunit)
               [] unit = "PSI" -> Ok(BAR_TO_PSI)
               [] unit = "PASCAL" -> Ok(BAR_TO_KILOPASCAL)
               [] unit = "KILO_PASCAL" -> Ok(_from_unit_to_kilounit)
               [] OTHER -> Ok(Zero)

AliasedPressureUnitConverter_get_factor_from_bar(to_descriptor) ==
    IF ~IsInstance(to_descriptor, UnitClass("PressureUnit"))
    THEN Raise("InvalidUnitConversion")
    ELSE LET unit == UnitOf(to_descriptor)
         IN  CASE unit = "BAR" -> Ok(One)
               [] unit = "MILLI_BAR" -> Ok(_from_unit_to_milliunit)
               [] unit = "PSI" -> Ok(BAR_TO_PSI)
               [] unit = "PASCAL" -> Ok(BAR_TO_PASCAL)
               [] unit = "KILO_PASCAL" -> Ok(_from_unit_to_kilounit)
               [] OTHER -> Ok(Zero)

AliasedPressureUnitConverter_get_factor(from_descriptor, to_descriptor) ==
    IF ~IsInstance(from_descriptor, UnitClass("PressureUnit"))
    THEN Raise("InvalidUnitConversion")
    ELSE LET unit == UnitOf(from_descriptor)
             from_bar == AliasedPressureUnitConverter_get_factor_from_bar(to_descriptor)
         IN  CASE unit = "BAR" -> from_bar
               [] unit = "MILLI_BAR" -> Scale(_from_milliunit_to_unit, from_bar)
               [] unit = "PSI" -> Scale(RInv(BAR_TO_PSI), from_bar)
               [] unit = "PASCAL" -> Scale(RInv(BAR_TO_PASCAL), from_bar)
               [] unit = "KILO_PASCAL" -> Scale(RInv(BAR_TO_KILOPASCAL), from_bar)
               [] OTHER -> Ok(Zero)

METER_TO_INCH == Q(3937, 100)

METER_TO_FOOT == Q(3281, 1000)

LengthUnitConverter_get_factor_from_meter(to_descriptor) ==
    IF ~IsInstance(to_descriptor, UnitClass("LengthUnit"))
    THEN Raise("InvalidUnitConversion")
    ELSE LET unit == UnitOf(to_descriptor)
         IN  CASE unit = "METER" -> Ok(One)
               [] unit = "MILLI_METER" -> Ok(_from_unit_to_milliunit)
               [] unit = "CENTI_METER" -> Ok(_from_unit_to_centiunit)
               [] unit = "KILO_METER" -> Ok(_from_unit_to_kilounit)
               [] unit = "INCH" -> Ok(METER_TO_INCH)
               [] unit = "FOOT" -> Ok(METER_TO_FOOT)
               [] OTHER -> Ok(Zero)

LengthUnitConverter_get_factor(from_descriptor, to_descriptor) ==
    IF ~IsInstance(from_descriptor, UnitClass("LengthUnit"))
    THEN Raise("InvalidUnitConversion")
    ELSE LET unit == UnitOf(from_descriptor)
             from_meter == LengthUnitConverter_get_factor_from_meter(to_descriptor)
         IN  CASE unit = "METER" -> from_meter
               [] unit = "MILLI_METER" -> Scale(_from_milliunit_to_unit, from_meter)
               [] unit = "CENTI_METER" -> Scale(_from_centiunit_to_unit, from_meter)
               [] unit = "KILO_METER" -> Scale(_from_kilounit_to_unit, from_meter)
               [] unit = "INCH" -> Scale(RInv(METER_TO_INCH), from_meter)
               [] unit = "FOOT" -> Scale(RInv(METER_TO_FOOT), from_meter)
               [] OTHER -> Ok(Zero)

KILOGRAM_TO_MILLIGRAM == Q(1000000, 1)

KILOGRAM_TO_METRIC_TONNE == Q(1, 1000)

KILOGRAM_TO_POUND == Q(2205, 1000)

MassUnitConverter_get_factor_from_kilogram(to_descriptor) ==
    IF ~IsInstance(to_descriptor, UnitClass("MassUnit"))
    THEN Raise("InvalidUnitConversion")
    ELSE LET unit == UnitOf(to_descriptor)
         IN  CASE unit = "KILO_GRAM" -> Ok(One)
               [] unit = "MILLI_GRAM" -> Ok(KILOGRAM_TO_MILLIGRAM)
               [] unit = "GRAM" -> Ok(_from_kilounit_to_unit)
               [] unit = "METRIC_TONNE" -> Ok(KILOGRAM_TO_METRIC_TONNE)
               [] unit = "POUND" -> Ok(KILOGRAM_TO_POUND)
               [] OTHER -> Ok(Zero)

MassUnitConverter_get_factor(from_descriptor, to_descriptor) ==
    IF ~IsInstance(from_descriptor, UnitClass("MassUnit"))
    THEN Raise("InvalidUnitConversion")
    ELSE LET unit == UnitOf(from_descriptor)
             from_kilogram == MassUnitConverter_get_factor_from_kilogram(to_descriptor)
         IN  CASE unit = "KILO_GRAM" -> from_kilogram
               [] unit = "MILLI_GRAM" -> Scale(RInv(KILOGRAM_TO_MILLIGRAM), from_kilogram)
               [] unit = "GRAM" -> Scale(_from_unit_to_kilounit, from_kilogram)
               [] unit = "METRIC_TONNE" -> Scale(RInv(KILOGRAM_TO_METRIC_TONNE), from_kilogram)
               [] unit = "POUND" -> Scale(RInv(KILOGRAM_TO_POUND), from_kilogram)
               [] OTHER -> Ok(Zero)

AmountUnitConverter_get_factor_from_mol(to_descriptor) ==
    IF ~IsInstance(to_descriptor, UnitClass("AmountUnit"))
    THEN Raise("InvalidUnitConversion")
    ELSE LET unit == UnitOf(to_descriptor)
         IN  CASE unit = "MOL" -> Ok(One)
               [] unit = "KILO_MOL" -> Ok(_from_unit_to_kilounit)
               [] OTHER -> Ok(Zero)

AmountUnitConverter_get_factor(from_descriptor, to_descriptor) ==
    IF ~IsInstance(from_descriptor, UnitClass("AmountUnit"))
    THEN Raise("InvalidUnitConversion")
    ELSE LET unit == UnitOf(from_descriptor)
             from_mol == AmountUnitConverter_get_factor_from_mol(to_descriptor)
         IN  CASE unit = "MOL" -> from_mol
               [] unit = "KILO_MOL" -> Scale(_from_kilounit_to_unit, from_mol)
               [] OTHER -> Ok(Zero)

SECOND_TO_MINUTE == Q(1, 60)

SECOND_TO_HOUR == Q(1, 3600)

SECOND_TO_DAY == Q(1, 86400)

TimeUnitConverter_get_factor_from_second(to_descriptor) ==
    IF ~IsInstance(to_descriptor, UnitClass("TimeUnit"))
    THEN Raise("InvalidUnitConversion")
    ELSE LET unit == UnitOf(to_descriptor)
         IN  CASE unit = "SECOND" -> Ok(One)
               [] unit = "MILLI_SECOND" -> Ok(_from_unit_to_milliunit)
               [] unit = "MINUTE" -> Ok(SECOND_TO_MINUTE)
               [] unit = "HOUR" -> Ok(SECOND_TO_HOUR)
               [] unit = "DAY" -> Ok(SECOND_TO_DAY)
               [] OTHER -> Ok(Zero)

TimeUnitConverter_get_factor(from_descriptor, to_descriptor) ==
    IF ~IsInstance(from_descriptor, UnitClass("TimeUnit"))
    THEN Raise("InvalidUnitConversion")
    ELSE LET unit == UnitOf(from_descriptor)
             from_second == TimeUnitConverter_get_factor_from_second(to_descriptor)
         IN  CASE unit = "SECOND" -> from_second
               [] unit = "MILLI_SECOND" -> Scale(_from_milliunit_to_unit, from_second)
               [] unit = "MINUTE" -> Scale(RInv(SECOND_TO_MINUTE), from_second)
               [] unit = "HOUR" -> Scale(RInv(SECOND_TO_HOUR), from_second)
               [] unit = "DAY" -> Scale(RInv(SECOND_TO_DAY), from_second)
               [] OTHER -> Ok(Zero)

JOULE_TO_CALORIE == Q(1000, 4184)

JOULE_TO_KILOCALORIE == Q(1, 4184)

JOULE_TO_BTU == Q(1, 1055)

EnergyUnitConverter_get_factor_from_joule(to_descriptor) ==
    IF ~IsInstance(to_descriptor, UnitClass("EnergyUnit"))
    THEN Raise("InvalidUnitConversion")
    ELSE LET unit == UnitOf(to_descriptor)
         IN  CASE unit = "JOULE" -> Ok(One)
               [] unit = "KILO_JOULE" -> Ok(_from_unit_to_kilounit)
               [] unit = "GIGA_JOULE" -> Ok(_from_gigaunit_to_unit)
               [] unit = "CALORIE" -> Ok(JOULE_TO_CALORIE)
               [] unit = "KILO_CALORIE" -> Ok(JOULE_TO_KILOCALORIE)
               [] unit = "BTU" -> Ok(JOULE_TO_BTU)
               [] OTHER -> Ok(Zero)

EnergyUnitConverter_get_factor(from_descriptor, to_descriptor) ==
    IF ~IsInstance(from_descriptor, UnitClass("EnergyUnit"))
    THEN Raise("InvalidUnitConversion")
    ELSE LET unit == UnitOf(from_descriptor)
             from_joule == EnergyUnitConverter_get_factor_from_joule(to_descriptor)
         IN  CASE unit = "JOULE" -> from_joule
               [] unit = "KILO_JOULE" -> Scale(_from_kilounit_to_unit, from_joule)
               [] unit = "GIGA_JOULE" -> Scale(_from_gigaunit_to_unit, from_joule)
               [] unit = "CALORIE" -> Scale(RInv(JOULE_TO_CALORIE), from_joule)
               [] unit = "KILO_CALORIE" -> Scale(RInv(JOULE_TO_KILOCALORIE), from_joule)
               [] unit = "BTU" -> Scale(JOULE_TO_BTU, from_joule)
               [] OTHER -> Ok(Zero)

\* the converter classes that derive from AbsoluteUnitConverter
AbsoluteConverters ==
    {"AliasedPressureUnitConverter", "LengthUnitConverter", "MassUnitConverter",
     "AmountUnitConverter", "TimeUnitConverter", "EnergyUnitConverter"}

\* cls.get_factor(from_descriptor, to_descriptor) for an absolute converter
get_factor(cls, from_descriptor, to_descriptor) ==
    CASE cls = "AliasedPressureUnitConverter" ->
            AliasedPressureUnitConverter_get_factor(from_descriptor, to_descriptor)
      [] cls = "LengthUnitConverter" ->
            LengthUnitConverter_get_factor(from_descriptor, to_descriptor)
      [] cls = "MassUnitConverter" ->
            MassUnitConverter_get_factor(from_descriptor, to_descriptor)
      [] cls = "AmountUnitConverter" ->
            AmountUnitConverter_get_factor(from_descriptor, to_descriptor)
      [] cls = "TimeUnitConverter" ->
            TimeUnitConverter_get_factor(from_descriptor, to_descriptor)
      [] cls = "EnergyUnitConverter" ->
            EnergyUnitConverter_get_factor(from_descriptor, to_descriptor)

\* AbsoluteUnitConverter.convert
AbsoluteUnitConverter_convert(cls, value, from_descriptor, to_descriptor) ==
    Scale(value, get_factor(cls, from_descriptor, to_descriptor))

(***************************************************************************)
(* TemperatureUnitConverter: not absolute, pivots through Celsius.         *)
(***************************************************************************)
from_celcius_to_kelvin(celcius) == RAdd(celcius, Q(27315, 100))

from_celcius_to_fahrenheit(celcius) == RAdd(RMul(Q(18, 10), celcius), FromInt(32))

\* a from_celcius_to_rankine that scales before it adds the offset
from_celcius_to_rankine_offset_last(celcius) ==
    RAdd(RMul(celcius, Q(18, 10)), Q(27315, 100))

from_celcius_to_rankine(celcius) == RMul(from_celcius_to_kelvin(celcius), Q(18, 10))

from_fahrenhet_to_celcius(fahrenheit) ==
    RDiv(RSub(fahrenheit, FromInt(32)), Q(18, 10))

from_kelvin_to_celcius(kelvin) == RSub(kelvin, Q(27315, 100))

from_rankine_to_celcius(rankine) == from_kelvin_to_celcius(RDiv(rankine, Q(18, 10)))

TemperatureUnitConverter_convert_from_celcius(value, to_descriptor) ==
    IF ~IsInstance(to_descriptor, UnitClass("TemperatureUnit"))
    THEN Raise("InvalidUnitConversion")
    ELSE LET unit == UnitOf(to_descriptor)
         IN  CASE unit = "CELCIUS" -> Ok(value)
               [] unit = "FAHRENHEIT" -> Ok(from_celcius_to_fahrenheit(value))
               [] unit = "KELVIN" -> Ok(from_celcius_to_kelvin(value))
               [] unit = "RANKINE" -> Ok(from_celcius_to_rankine(value))
               [] OTHER -> Ok(Zero)

TemperatureUnitConverter_convert(value, from_descriptor, to_descriptor) ==
    IF ~IsInstance(from_descriptor, UnitClass("TemperatureUnit"))
    THEN Raise("InvalidUnitConversion")
    ELSE LET unit == UnitOf(from_descriptor)
         IN  CASE unit = "CELCIUS" ->
                    TemperatureUnitConverter_convert_from_celcius(value, to_descriptor)
               [] unit = "FAHRENHEIT" ->
                    TemperatureUnitConverter_convert_from_celcius(
                        from_fahrenhet_to_celcius(value), to_descriptor)
               [] unit = "KELVIN" ->
                    TemperatureUnitConverter_convert_from_celcius(
                        from_kelvin_to_celcius(value), to_descriptor)
               [] unit = "RANKINE" ->
                    TemperatureUnitConverter_convert_from_celcius(
                        from_rankine_to_celcius(value), to_descriptor)
               [] OTHER -> Ok(Zero)

(***************************************************************************)
(* Strings.  A Python str is a sequence of one-character strings; Ord is   *)
(* the code point of a character, which is what str comparison (and so     *)
(* sorted()) goes by.                                                      *)
(***************************************************************************)
Ord ==
    (" " :> 32) @@ ("'" :> 39) @@ ("(" :> 40) @@ (")" :> 41) @@ ("*" :> 42)
    @@ ("," :> 44) @@ ("-" :> 45) @@ ("/" :> 47) @@ ("0" :> 48) @@ ("1" :>
    49) @@ ("2" :> 50) @@ ("3" :> 51) @@ ("4" :> 52) @@ ("5" :> 53) @@ ("6"
    :> 54) @@ ("7" :> 55) @@ ("8" :> 56) @@ ("9" :> 57) @@ ("=" :> 61) @@
    (">" :> 62) @@ ("A" :> 65) @@ ("B" :> 66) @@ ("C" :> 67) @@ ("E" :> 69)
    @@ ("F" :> 70) @@ ("G" :> 71) @@ ("J" :> 74) @@ ("K" :> 75) @@ ("L" :>
    76) @@ ("M" :> 77) @@ ("P" :> 80) @@ ("R" :> 82) @@ ("T" :> 84) @@ ("U"
    :> 85) @@ ("^" :> 94) @@ ("a" :> 97) @@ ("b" :> 98) @@ ("c" :> 99) @@
    ("d" :> 100) @@ ("e" :> 101) @@ ("f" :> 102) @@ ("g" :> 103) @@ ("h" :>
    104) @@ ("i" :> 105) @@ ("k" :> 107) @@ ("l" :> 108) @@ ("m" :> 109) @@
    ("n" :> 110) @@ ("o" :> 111) @@ ("p" :> 112) @@ ("r" :> 114) @@ ("s" :>
    115) @@ ("t" :> 116) @@ ("u" :> 117) @@ ("w" :> 119) @@ ("y" :> 121) @@
    ("°" :> 176)

RECURSIVE StrLess(_, _)
StrLess(a, b) ==
    IF Len(a) = 0 THEN Len(b) > 0
    ELSE IF Len(b) = 0 THEN FALSE
    ELSE IF Ord[Head(a)] # Ord[Head(b)] THEN Ord[Head(a)] < Ord[Head(b)]
    ELSE StrLess(Tail(a), Tail(b))

\* x put in its place in the sorted list s
RECURSIVE Insert(_, _)
Insert(x, s) ==
    IF Len(s) = 0 THEN <<x>>
    ELSE IF StrLess(x, Head(s)) THEN <<x>> \o s
    ELSE <<Head(s)>> \o Insert(x, Tail(s))

\* sorted(list of str)
RECURSIVE Sorted(_)
Sorted(s) == IF Len(s) = 0 THEN <<>> ELSE Insert(Head(s), Sorted(Tail(s)))

\* sep.join(list of str)
RECURSIVE Join(_, _)
Join(sep, s) ==
    IF Len(s) = 0 THEN <<>>
    ELSE IF Len(s) = 1 THEN Head(s)
    ELSE Head(s) \o sep \o Join(sep, Tail(s))

Digit == <<"0", "1", "2", "3", "4", "5", "6", "7", "8", "9">>

\* str(k) for an int k
RECURSIVE IntStr(_)
IntStr(k) ==
    IF k < 0 THEN <<"-">> \o IntStr(0 - k)
    ELSE IF k < 10 THEN <<Digit[k + 1]>>
    ELSE IntStr(k \div 10) \o <<Digit[(k % 10) + 1]>>

\* the value (display symbol) of each unit
Symbol ==
    [CELCIUS |-> <<"°", "C">>,
     KELVIN |-> <<"K">>,
     FAHRENHEIT |-> <<"°", "F">>,
     RANKINE |-> <<"°", "R">>,
     MILLI_METER |-> <<"m", "m">>,
     CENTI_METER |-> <<"c", "m">>,
     METER |-> <<"m">>,
     KILO_METER |-> <<"k", "m">>,
     INCH |-> <<"i", "n">>,
     FOOT |-> <<"f", "t">>,
     MILLI_GRAM |-> <<"m", "g">>,
     GRAM |-> <<"g">>,
     KILO_GRAM |-> <<"k", "g">>,
     METRIC_TONNE |-> <<"M", "T">>,
     POUND |-> <<"l", "b">>,
     MOL |-> <<"m", "o", "l">>,
     KILO_MOL |-> <<"k", "m", "o", "l">>,
     MILLI_SECOND |-> <<"m", "s">>,
     SECOND |-> <<"s">>,
     MINUTE |-> <<"m", "i", "n">>,
     HOUR |-> <<"h", "r">>,
     DAY |-> <<"d">>,
     MILLI_BAR |-> <<"m", "b", "a", "r">>,
     BAR |-> <<"b", "a", "r">>,
     PSI |-> <<"p", "s", "i">>,
     PASCAL |-> <<"P", "a">>,
     KILO_PASCAL |-> <<"k", "P", "a">>,
     JOULE |-> <<"J">>,
     KILO_JOULE |-> <<"k", "J">>,
     MEGA_JOULE |-> <<"M", "J">>,
     GIGA_JOULE |-> <<"G", "J">>,
     CALORIE |-> <<"c", "a", "l">>,
     KILO_CALORIE |-> <<"k", "c", "a", "l">>,
     BTU |-> <<"B", "t", "u">>]

\* the name of each unit class
ClassName ==
    [TemperatureUnit |-> <<"T", "e", "m", "p", "e", "r", "a", "t", "u", "r", "e", "U", "n", "i", "t">>,
     LengthUnit |-> <<"L", "e", "n", "g", "t", "h", "U", "n", "i", "t">>,
     MassUnit |-> <<"M", "a", "s", "s", "U", "n", "i", "t">>,
     AmountUnit |-> <<"A", "m", "o", "u", "n", "t", "U", "n", "i", "t">>,
     TimeUnit |-> <<"T", "i", "m", "e", "U", "n", "i", "t">>,
     PressureUnit |-> <<"P", "r", "e", "s", "s", "u", "r", "e", "U", "n", "i", "t">>,
     EnergyUnit |-> <<"E", "n", "e", "r", "g", "y", "U", "n", "i", "t">>]

\* Dimension.__str__
Dimension_str(d) ==
    IF d.power # 1
    THEN <<"(">> \o Symbol[d.unit] \o <<")", " ", "^", " ">> \o IntStr(d.power)
    ELSE Symbol[d.unit]

\* a CompositeDimension.__str__ that lists the Dimensions as they are held
CompositeDimension_str_unsorted(c) ==
    LET numerators ==
            Join(<<" ", "*", " ">>,
                 [i \in DOMAIN c.numerator |-> Dimension_str(c.numerator[i])])
        denominators ==
            Join(<<" ", "/", " ">>,
                 [i \in DOMAIN c.denominator |-> Dimension_str(c.denominator[i])])
    IN  IF Len(denominators) > 0
        THEN numerators \o <<" ", "/", " ">> \o denominators
        ELSE numerators

\* CompositeDimension.__str__
CompositeDimension_str(c) ==
    LET numerators ==
            Join(<<" ", "*", " ">>,
                 Sorted([i \in DOMAIN c.numerator |-> Dimension_str(c.numerator[i])]))
        denominators ==
            Join(<<" ", "/", " ">>,
                 Sorted([i \in DOMAIN c.denominator |->
                            Dimension_str(c.denominator[i])]))
    IN  IF Len(denominators) > 0
        THEN numerators \o <<" ", "/", " ">> \o denominators
        ELSE numerators

\* str(GenericDimension): the dataclass repr,
\* "GenericDimension(unit_type=<enum 'MassUnit'>, power=1)", without the
\* prefix "GenericDimension(unit_type=<enum '" that all of them share
GenericDimension_str(g) ==
    ClassName[g.unit_type] \o <<"'", ">", ",", " ", "p", "o", "w", "e", "r", "=">>
        \o IntStr(g.power) \o <<")">>

\* GenericCompositeDimension.__str__
GenericCompositeDimension_str(c) ==
    LET numerators ==
            Join(<<" ", "*", " ">>,
                 Sorted([i \in DOMAIN c.numerator |->
                            GenericDimension_str(c.numerator[i])]))
        denominators ==
            Join(<<" ", "/", " ">>,
                 Sorted([i \in DOMAIN c.denominator |->
                            GenericDimension_str(c.denominator[i])]))
    IN  IF Len(denominators) > 0
        THEN numerators \o <<" ", "/", " ">> \o denominators
        ELSE numerators

\* Dimension.__eq__
Dimension_eq(a, b) ==
    /\ b.kind = "Dimension"
    /\ a.unit = b.unit
    /\ a.power = b.power

\* CompositeDimension.__eq__: both sides compared as sets
CompositeDimension_eq(a, b) ==
    /\ b.kind = "CompositeDimension"
    /\ Range(a.numerator) = Range(b.numerator)
    /\ Range(a.denominator) = Range(b.denominator)

\* hash(x): the hash of the string form where __hash__ is hash(str(self)),
\* of the value for a unit, of the class itself for a unit class; two
\* hashes are equal exactly when what is hashed is
Hash(x) ==
    CASE x.kind = "MeasurementUnit" -> <<"str", Symbol[x.unit]>>
      [] x.kind = "Dimension" -> <<"str", Dimension_str(x)>>
      [] x.kind = "CompositeDimension" -> <<"str", CompositeDimension_str(x)>>
      [] x.kind = "MeasurementUnitType" -> <<"class", ClassName[x.unit_type]>>
      [] x.kind = "GenericDimension" -> <<"repr", GenericDimension_str(x)>>
      [] x.kind = "GenericCompositeDimension" ->
            <<"str", GenericCompositeDimension_str(x)>>

\* a == b for two generic descriptors
Generic_eq(a, b) ==
    CASE a.kind = "MeasurementUnitType" ->
            b.kind = "MeasurementUnitType" /\ a.unit_type = b.unit_type
      [] a.kind = "GenericDimension" -> GenericDimension_eq(a, b)
      [] a.kind = "GenericCompositeDimension" -> GenericCompositeDimension_eq(a, b)

(***************************************************************************)
(* The algebra of descriptors: *, / and ** (crdlib/properties/units.py).   *)
(* An operand that is no descriptor of the operator's level makes the      *)
(* operator raise.                                                         *)
(***************************************************************************)
\* MeasurementUnitMeta.__mul__ and GenericDimension.__mul__; self is the
\* GenericDimension, or GenericDimension(unit_cls) for a unit class
GenericDimension_mul(self, other) ==
    CASE other.kind = "GenericCompositeDimension" ->
            Ok(GenericCompositeDimension(Append(other.numerator, self),
                                         other.denominator))
      [] other.kind = "GenericDimension" ->
            Ok(GenericCompositeDimension(<<self, other>>, <<>>))
      [] other.kind = "MeasurementUnitType" ->
            Ok(GenericCompositeDimension(
                <<self, GenericDimension(other.unit_type, 1)>>, <<>>))
      [] OTHER -> Raise("InvalidUnitDescriptorBinaryOperation")

\* MeasurementUnitMeta.__truediv__ and GenericDimension.__truediv__
GenericDimension_truediv(self, other) ==
    CASE other.kind = "GenericCompositeDimension" ->
            Ok(GenericCompositeDimension(Append(other.denominator, self),
                                         other.numerator))
      [] other.kind = "GenericDimension" ->
            Ok(GenericCompositeDimension(<<self>>, <<other>>))
      [] other.kind = "MeasurementUnitType" ->
            Ok(GenericCompositeDimension(
                <<self>>, <<GenericDimension(other.unit_type, 1)>>))
      [] OTHER -> Raise("InvalidUnitDescriptorBinaryOperation")

\* GenericCompositeDimension.__mul__
GenericCompositeDimension_mul(self, other) ==
    CASE other.kind = "GenericCompositeDimension" ->
            Ok(GenericCompositeDimension(self.numerator \o other.numerator,
                                         self.denominator \o other.denominator))
      [] other.kind = "GenericDimension" ->
            Ok(GenericCompositeDimension(Append(self.numerator, other),
                                         self.denominator))
      [] other.kind = "MeasurementUnitType" ->
            Ok(GenericCompositeDimension(
                Append(self.numerator, GenericDimension(other.unit_type, 1)),
                self.denominator))
      [] OTHER -> Raise("InvalidUnitDescriptorBinaryOperation")

\* GenericCompositeDimension.__truediv__
GenericCompositeDimension_truediv(self, other) ==
    CASE other.kind = "GenericCompositeDimension" ->
            Ok(GenericCompositeDimension(self.numerator \o other.denominator,
                                         self.denominator \o other.numerator))
      [] other.kind = "GenericDimension" ->
            Ok(GenericCompositeDimension(self.numerator,
                                         Append(self.denominator, other)))
      [] other.kind = "MeasurementUnitType" ->
            Ok(GenericCompositeDimension(
                self.numerator,
                Append(self.denominator, GenericDimension(other.unit_type, 1))))
      [] OTHER -> Raise("InvalidUnitDescriptorBinaryOperation")

\* a Dimension.__mul__ whose last raise is missing: the method returns None
Dimension_mul_no_raise(self, descriptor) ==
    CASE descriptor.kind = "CompositeDimension" ->
            Ok(CompositeDimension(Append(descriptor.numerator, self),
                                  descriptor.denominator))
      [] descriptor.kind = "Dimension" ->
            Ok(CompositeDimension(<<self, descriptor>>, <<>>))
      [] descriptor.kind = "MeasurementUnit" ->
            Ok(CompositeDimension(<<self, Dimension(descriptor.unit, 1)>>, <<>>))
      [] OTHER -> Ok([kind |-> "None"])

\* Dimension.__mul__
Dimension_mul(self, descriptor) ==
    CASE descriptor.kind = "CompositeDimension" ->
            Ok(CompositeDimension(Append(descriptor.numerator, self),
                                  descriptor.denominator))
      [] descriptor.kind = "Dimension" ->
            Ok(CompositeDimension(<<self, descriptor>>, <<>>))
      [] descriptor.kind = "MeasurementUnit" ->
            Ok(CompositeDimension(<<self, Dimension(descriptor.unit, 1)>>, <<>>))
      [] OTHER -> Raise("InvalidUnitDescriptorBinaryOperation")

\* Dimension.__truediv__
Dimension_truediv(self, descriptor) ==
    CASE descriptor.kind = "CompositeDimension" ->
            Ok(CompositeDimension(Append(descriptor.denominator, self),
                                  descriptor.numerator))
      [] descriptor.kind = "Dimension" ->
            Ok(CompositeDimension(<<self>>, <<descriptor>>))
      [] descriptor.kind = "MeasurementUnit" ->
            Ok(CompositeDimension(<<self>>, <<Dimension(descriptor.unit, 1)>>))
      [] OTHER -> Raise("InvalidUnitDescriptorBinaryOperation")

\* MeasurementUnit.__mul__
MeasurementUnit_mul(self, descriptor) ==
    CASE descriptor.kind = "MeasurementUnit" ->
            Dimension_mul(Dimension(self.unit, 1), Dimension(descriptor.unit, 1))
      [] descriptor.kind \in {"Dimension", "CompositeDimension"} ->
            Dimension_mul(Dimension(self.unit, 1), descriptor)
      [] OTHER -> Raise("InvalidUnitDescriptorBinaryOperation")

\* MeasurementUnit.__truediv__
MeasurementUnit_truediv(self, descriptor) ==
    CASE descriptor.kind = "MeasurementUnit" ->
            Dimension_truediv(Dimension(self.unit, 1), Dimension(descriptor.unit, 1))
      [] descriptor.kind \in {"Dimension", "CompositeDimension"} ->
            Dimension_truediv(Dimension(self.unit, 1), descriptor)
      [] OTHER -> Raise("InvalidUnitDescriptorBinaryOperation")

\* CompositeDimension.__mul__
CompositeDimension_mul(self, descriptor) ==
    CASE descriptor.kind = "CompositeDimension" ->
            Ok(CompositeDimension(self.numerator \o descriptor.numerator,
                                  self.denominator \o descriptor.denominator))
      [] descriptor.kind = "Dimension" ->
            Ok(CompositeDimension(Append(self.numerator, descriptor),
                                  self.denominator))
      [] descriptor.kind = "MeasurementUnit" ->
            Ok(CompositeDimension(
                Append(self.numerator, Dimension(descriptor.unit, 1)),
                self.denominator))
      [] OTHER -> Raise("InvalidUnitDescriptorBinaryOperation")

\* CompositeDimension.__truediv__
CompositeDimension_truediv(self, descriptor) ==
    CASE descriptor.kind = "CompositeDimension" ->
            Ok(CompositeDimension(self.numerator \o descriptor.denominator,
                                  self.denominator \o descriptor.denominator))
      [] descriptor.kind = "Dimension" ->
            Ok(CompositeDimension(self.numerator,
                                  Append(self.denominator, descriptor)))
      [] descriptor.kind = "MeasurementUnit" ->
            Ok(CompositeDimension(
                self.numerator,
                Append(self.denominator, Dimension(descriptor.unit, 1))))
      [] OTHER -> Raise("InvalidUnitDescriptorBinaryOperation")

\* a * b, dispatched on a's class
Mul(a, b) ==
    CASE a.kind = "MeasurementUnit" -> MeasurementUnit_mul(a, b)
      [] a.kind = "Dimension" -> Dimension_mul(a, b)
      [] a.kind = "CompositeDimension" -> CompositeDimension_mul(a, b)
      [] a.kind = "MeasurementUnitType" ->
            GenericDimension_mul(GenericDimension(a.unit_type, 1), b)
      [] a.kind = "GenericDimension" -> GenericDimension_mul(a, b)
      [] a.kind = "GenericCompositeDimension" -> GenericCompositeDimension_mul(a, b)

\* a / b, dispatched on a's class
TrueDiv(a, b) ==
    CASE a.kind = "MeasurementUnit" -> MeasurementUnit_truediv(a, b)
      [] a.kind = "Dimension" -> Dimension_truediv(a, b)
      [] a.kind = "CompositeDimension" -> CompositeDimension_truediv(a, b)
      [] a.kind = "MeasurementUnitType" ->
            GenericDimension_truediv(GenericDimension(a.unit_type, 1), b)
      [] a.kind = "GenericDimension" -> GenericDimension_truediv(a, b)
      [] a.kind = "GenericCompositeDimension" ->
            GenericCompositeDimension_truediv(a, b)

\* the value of a ** power for a unit class, a GenericDimension, a unit or a
\* Dimension (the Dimension and GenericDimension operand is itself updated
\* and returned)
Pow(a, power) ==
    CASE a.kind = "MeasurementUnitType" -> GenericDimension(a.unit_type, power)
      [] a.kind = "GenericDimension" -> GenericDimension(a.unit_type, a.power * power)
      [] a.kind = "MeasurementUnit" -> Dimension(a.unit, 1 * power)
      [] a.kind = "Dimension" -> Dimension(a.unit, a.power * power)

\* what an operator is handed for the object at place i: a Dimension or a
\* GenericDimension is handed over as the object itself, a composite with
\* its two lists of such objects
Reference(h, i) ==
    IF h[i].kind \in {"Dimension", "GenericDimension"}
    THEN [kind |-> h[i].kind, ref |-> i]
    ELSE h[i]

\* the objects after an operator returned result: a composite it built is
\* one more object, and an exception leaves the objects as they were
Stored(h, result) == IF result.exc # "" THEN h ELSE Append(h, result.val)

\* a product that extends the lists of a composite left operand themselves
MulAt_no_copy(h, a, b) ==
    IF h[a].kind \in {"Dimension", "GenericDimension"}
    THEN Stored(h, Mul(Reference(h, a), Reference(h, b)))
    ELSE LET after == Stored(h, Mul(Reference(h, a), Reference(h, b)))
         IN  [after EXCEPT ![a] = after[Len(after)]]

\* the objects after h[a] * h[b]: the lists of the new composite are
\* copies, and they hold the very Dimension objects of the operands
MulAt(h, a, b) == Stored(h, Mul(Reference(h, a), Reference(h, b)))

\* the objects after h[a] / h[b]
TrueDivAt(h, a, b) == Stored(h, TrueDiv(Reference(h, a), Reference(h, b)))

\* a ** power as the interpreter evaluates it: the operand's __pow__ where
\* its class has one; CompositeDimension and GenericCompositeDimension
\* define none, and the interpreter raises TypeError
Power(a, power) ==
    IF a.kind \in {"CompositeDimension", "GenericCompositeDimension"}
    THEN Raise("TypeError")
    ELSE Ok(Pow(a, power))

\* x / y and x * y in expressions that cannot raise
Over(x, y) == TrueDiv(x, y).val

Times(x, y) == Mul(x, y).val

(***************************************************************************)
(* The converter registry (converters.py, _converters): a dict, modelled   *)
(* as the sequence of its items in insertion order.                        *)
(***************************************************************************)
None == [kind |-> "None"]

\* the generic descriptors the converter classes are registered and checked
\* with
VolumeGeneric == Pow(UnitClass("LengthUnit"), 3)

MassRateGeneric == Over(UnitClass("MassUnit"), UnitClass("TimeUnit"))

MolarVolumeGeneric == Over(Pow(UnitClass("LengthUnit"), 3), UnitClass("AmountUnit"))

AliasedMolarEnergyGeneric == Over(UnitClass("EnergyUnit"), UnitClass("AmountUnit"))

GasConstantGeneric ==
    Over(Over(Over(Times(UnitClass("MassUnit"), Pow(UnitClass("LengthUnit"), 2)),
                   Pow(UnitClass("TimeUnit"), 2)),
              UnitClass("TemperatureUnit")),
         UnitClass("AmountUnit"))

PressureGeneric ==
    Over(Over(UnitClass("MassUnit"), UnitClass("LengthUnit")),
         Pow(UnitClass("TimeUnit"), 2))

MolarEnergyGeneric ==
    Over(Over(Over(UnitClass("MassUnit"), UnitClass("LengthUnit")),
              Pow(UnitClass("TimeUnit"), 2)),
         UnitClass("AmountUnit"))

\* the least index of a set of indices, 0 for the empty set
First(hit) == IF hit = {} THEN 0 ELSE CHOOSE i \in hit : \A j \in hit : i <= j

\* the item of a list at an index, None for index 0
ItemAt(s, i) == IF i = 0 THEN None ELSE s[i]

\* dict lookup: the index of the item whose key has the same hash as, and is
\* equal to, the given key; 0 when there is none
Lookup(d, key) ==
    First({i \in DOMAIN d : Hash(d[i].key) = Hash(key) /\ Generic_eq(d[i].key, key)})

\* _converters[generic] at the index the lookup found: KeyError is turned
\* into UndefinedConverter
ConverterAt(d, i) ==
    IF i = 0 THEN Raise("UndefinedConverter") ELSE Ok(d[i].cls)

\* get_converter
get_converter(generic) == ConverterAt(_converters, Lookup(_converters, generic))

\* d[generic] = cls at the index the lookup found: a new item is appended,
\* an existing item keeps its place and gets the new value
SetAt(d, i, generic, cls) ==
    IF i = 0 THEN Append(d, [key |-> generic, cls |-> cls])
    ELSE [d EXCEPT ![i].cls = cls]

\* the dict after register_converter(generic)(cls): _converters[generic] = cls
Registered(d, generic, cls) == SetAt(d, Lookup(d, generic), generic, cls)

\* the @register_converter decorations of converters.py, in module order
Decorations ==
    <<[key |-> UnitClass("TemperatureUnit"), cls |-> "TemperatureUnitConverter"],
      [key |-> UnitClass("PressureUnit"), cls |-> "AliasedPressureUnitConverter"],
      [key |-> UnitClass("LengthUnit"), cls |-> "LengthUnitConverter"],
      [key |-> UnitClass("MassUnit"), cls |-> "MassUnitConverter"],
      [key |-> UnitClass("AmountUnit"), cls |-> "AmountUnitConverter"],
      [key |-> UnitClass("TimeUnit"), cls |-> "TimeUnitConverter"],
      [key |-> UnitClass("EnergyUnit"), cls |-> "EnergyUnitConverter"],
      [key |-> VolumeGeneric, cls |-> "VolumeUnitConverter"],
      [key |-> MassRateGeneric, cls |-> "MassRateUnitConverter"],
      [key |-> MolarVolumeGeneric, cls |-> "MolarVolumeUnitConverter"],
      [key |-> AliasedMolarEnergyGeneric, cls |-> "AliasedMolarEnergyUnitConverter"],
      [key |-> GasConstantGeneric, cls |-> "GasConstantUnitConverter"],
      [key |-> PressureGeneric, cls |-> "PressureUnitConverter"],
      [key |-> MolarEnergyGeneric, cls |-> "MolarEnergyUnitConverter"]>>

\* the registry once converters.py is imported
RECURSIVE Imported(_)
Imported(k) ==
    IF k = 0 THEN <<>>
    ELSE Registered(Imported(k - 1), Decorations[k].key, Decorations[k].cls)

(***************************************************************************)
(* Composite converters (CompositePhysicalPropertyUnitConverter) and the   *)
(* Volume converter.                                                       *)
(***************************************************************************)
\* CompositeDimension.get_numerator / get_denominator on one side's list:
\* the first Dimension that is an instance of the generic, or None
GetDimension(side, generic) ==
    ItemAt(side, First({i \in DOMAIN side : Dimension_isinstance(side[i], generic)}))

\* numerator_factor / denominator_factor of get_factor, the numerator's
\* factor being computed first
Quotient(num, den) ==
    IF num.exc # "" THEN num
    ELSE IF den.exc # "" THEN den
    ELSE IF den.val.n = 0 THEN Raise("ZeroDivisionError")
    ELSE Ok(RDiv(num.val, den.val))

\* the loop of get_numerator_factor / get_denominator_factor over the
\* from-side list, from its i-th Dimension on, with the product so far
RECURSIVE SideFactor(_, _, _, _)
\* factor *= f, then the next Dimension; an exception of get_factor leaves
\* the loop
SideFactorTimes(from_side, to_side, i, factor, f) ==
    IF f.exc # "" THEN f
    ELSE SideFactor(from_side, to_side, i + 1, RMul(factor, f.val))

\* the loop body once the converter of the Dimension's unit class is got
SideFactorWith(from_side, to_side, i, factor, to_d, converter) ==
    IF converter.exc # "" THEN converter
    ELSE IF converter.val \in AbsoluteConverters
    THEN SideFactorTimes(from_side, to_side, i, factor,
                         get_factor(converter.val, Unit(from_side[i].unit),
                                    Unit(to_d.unit)))
    ELSE SideFactor(from_side, to_side, i + 1, factor)

\* the loop body once the to-side Dimension is got
SideFactorTo(from_side, to_side, i, factor, to_d) ==
    IF to_d = None THEN Raise("InvalidUnitConversion")
    ELSE SideFactorWith(from_side, to_side, i, factor, to_d,
                        get_converter(UnitClass(TypeOf(from_side[i].unit))))

SideFactor(from_side, to_side, i, factor) ==
    IF i > Len(from_side) THEN Ok(factor)
    ELSE SideFactorTo(from_side, to_side, i, factor,
                      GetDimension(to_side, Dimension_to_generic(from_side[i])))

get_numerator_factor(from_dimension, to_dimension) ==
    SideFactor(from_dimension.numerator, to_dimension.numerator, 1, One)

get_denominator_factor(from_dimension, to_dimension) ==
    SideFactor(from_dimension.denominator, to_dimension.denominator, 1, One)

\* CompositePhysicalPropertyUnitConverter.get_factor
Composite_get_factor(from_dimension, to_dimension) ==
    Quotient(get_numerator_factor(from_dimension, to_dimension),
             get_denominator_factor(from_dimension, to_dimension))

\* the generic descriptor each composite converter's convert checks with
CompositeConverterGeneric ==
    [MassRateUnitConverter |-> MassRateGeneric,
     MolarVolumeUnitConverter |-> MolarVolumeGeneric,
     AliasedMolarEnergyUnitConverter |-> AliasedMolarEnergyGeneric,
     GasConstantUnitConverter |-> GasConstantGeneric,
     PressureUnitConverter |-> PressureGeneric,
     MolarEnergyUnitConverter |-> MolarEnergyGeneric]

CompositeConverters == DOMAIN CompositeConverterGeneric

\* convert of MassRateUnitConverter, MolarVolumeUnitConverter, ...
Composite_convert(cls, value, from_descriptor, to_descriptor) ==
    IF \/ ~IsInstance(to_descriptor, CompositeConverterGeneric[cls])
       \/ ~IsInstance(from_descriptor, CompositeConverterGeneric[cls])
    THEN Raise("InvalidUnitConversion")
    ELSE Scale(value, Composite_get_factor(from_descriptor, to_descriptor))

\* a VolumeUnitConverter.convert that checks the target's family only
VolumeUnitConverter_convert_any_power(value, from_descriptor, to_descriptor) ==
    IF \/ ~IsInstance(from_descriptor, VolumeGeneric)
       \/ to_descriptor.kind # "Dimension"
       \/ to_descriptor.unit \notin LengthUnit
    THEN Raise("InvalidUnitConversion")
    ELSE LET factor == LengthUnitConverter_get_factor(Unit(from_descriptor.unit),
                                                      Unit(to_descriptor.unit))
         IN  Ok(RMul(value, RPow(factor.val, to_descriptor.power)))

\* value * factor**power, or the exception get_factor raised
ScalePow(value, factor, power) ==
    IF factor.exc # "" THEN factor ELSE Ok(RMul(value, RPow(factor.val, power)))

\* a VolumeUnitConverter.convert that leaves the power out of the factor
VolumeUnitConverter_convert_linear(value, from_descriptor, to_descriptor) ==
    IF \/ ~IsInstance(to_descriptor, VolumeGeneric)
       \/ ~IsInstance(from_descriptor, VolumeGeneric)
    THEN Raise("InvalidUnitConversion")
    ELSE ScalePow(value,
                  LengthUnitConverter_get_factor(Unit(from_descriptor.unit),
                                                 Unit(to_descriptor.unit)), 1)

\* VolumeUnitConverter.convert
VolumeUnitConverter_convert(value, from_descriptor, to_descriptor) ==
    IF \/ ~IsInstance(to_descriptor, VolumeGeneric)
       \/ ~IsInstance(from_descriptor, VolumeGeneric)
    THEN Raise("InvalidUnitConversion")
    ELSE LET from_dimension == Dimension_from_descriptor(from_descriptor).val
             to_dimension == Dimension_from_descriptor(to_descriptor).val
             factor == LengthUnitConverter_get_factor(Unit(from_dimension.unit),
                                                      Unit(to_dimension.unit))
         IN  ScalePow(value, factor, to_dimension.power)

ConverterClasses ==
    AbsoluteConverters \cup CompositeConverters
        \cup {"TemperatureUnitConverter", "VolumeUnitConverter"}

\* cls.convert(value, from_descriptor, to_descriptor)
convert(cls, value, from_descriptor, to_descriptor) ==
    CASE cls = "TemperatureUnitConverter" ->
            TemperatureUnitConverter_convert(value, from_descriptor, to_descriptor)
      [] cls = "VolumeUnitConverter" ->
            VolumeUnitConverter_convert(value, from_descriptor, to_descriptor)
      [] cls \in AbsoluteConverters ->
            AbsoluteUnitConverter_convert(cls, value, from_descriptor, to_descriptor)
      [] cls \in CompositeConverters ->
            Composite_convert(cls, value, from_descriptor, to_descriptor)

(***************************************************************************)
(* Physical properties (crdlib/properties/properties.py).                  *)
(***************************************************************************)
\* the base class of each concrete property class
PropertyBase ==
    [Temperature |-> "PhysicalProperty", Length |-> "PhysicalProperty",
     Mass |-> "PhysicalProperty", Amount |-> "PhysicalProperty",
     Time |-> "PhysicalProperty", Volume |-> "ExponentPhysicalProperty",
     Pressure |-> "AliasedPhysicalProperty", Energy |-> "AliasedPhysicalProperty",
     MassRate |-> "CompositePhysicalProperty",
     MolarVolume |-> "CompositePhysicalProperty",
     MolarEnergy |-> "AliasedCompositePhysicalProperty",
     GasConstant |-> "CompositePhysicalProperty",
     ThermalCapacity |-> "AliasedCompositePhysicalProperty",
     VolumetricRate |-> "PhysicalProperty", MolecularRate |-> "PhysicalProperty",
     MassFraction |-> "PhysicalProperty", VolumeFraction |-> "PhysicalProperty",
     MolecularFraction |-> "PhysicalProperty"]

PropertyClasses == DOMAIN PropertyBase

\* the generic_descriptor class attribute; None where the class body is `pass`
\* and the attribute is only annotated on AbstractPhysicalProperty
generic_descriptor ==
    [Temperature |-> UnitClass("TemperatureUnit"), Length |-> UnitClass("LengthUnit"),
     Mass |-> UnitClass("MassUnit"), Amount |-> UnitClass("AmountUnit"),
     Time |-> UnitClass("TimeUnit"), Volume |-> Pow(UnitClass("LengthUnit"), 3),
     Pressure |-> UnitClass("PressureUnit"), Energy |-> UnitClass("EnergyUnit"),
     MassRate |-> Over(UnitClass("MassUnit"), UnitClass("TimeUnit")),
     MolarVolume |-> Over(Pow(UnitClass("LengthUnit"), 3), UnitClass("AmountUnit")),
     MolarEnergy |-> Over(UnitClass("EnergyUnit"), UnitClass("AmountUnit")),
     GasConstant |->
        Over(Over(Over(Times(UnitClass("MassUnit"), Pow(UnitClass("LengthUnit"), 2)),
                       Pow(UnitClass("TimeUnit"), 2)),
                  UnitClass("TemperatureUnit")),
             UnitClass("AmountUnit")),
     ThermalCapacity |->
        Over(Over(UnitClass("EnergyUnit"), UnitClass("AmountUnit")),
             UnitClass("TemperatureUnit")),
     VolumetricRate |-> None, MolecularRate |-> None, MassFraction |-> None,
     VolumeFraction |-> None, MolecularFraction |-> None]

Property(cls, value, unit_descriptor) ==
    [cls |-> cls, value |-> value, unit_descriptor |-> unit_descriptor]

\* cls(value, unit): the __init__ of the class's base
New(cls, value, unit) ==
    LET d == CASE PropertyBase[cls] = "PhysicalProperty" ->
                    MeasurementUnit_from_descriptor(unit)
               [] PropertyBase[cls] = "ExponentPhysicalProperty" ->
                    Dimension_from_descriptor(unit)
               [] PropertyBase[cls] = "AliasedPhysicalProperty" ->
                    AliasedMeasurementUnit_from_descriptor(unit)
               [] PropertyBase[cls] \in {"CompositePhysicalProperty",
                                         "AliasedCompositePhysicalProperty"} ->
                    CompositeDimension_from_descriptor(unit)
    IN  IF d.exc # "" THEN Raise("WrongUnitDescriptorType")
        ELSE Ok(Property(cls, value, d.val))

\* AbstractPhysicalProperty._get_converter: reading cls.generic_descriptor
\* raises AttributeError on a class that never assigned it
_get_converter(cls) ==
    IF generic_descriptor[cls] = None THEN Raise("AttributeError")
    ELSE get_converter(generic_descriptor[cls])

\* cls(value=value, unit=to_unit), or the exception convert raised
FromValue(cls, to_unit, value) ==
    IF value.exc # "" THEN value ELSE New(cls, value.val, to_unit)

\* from_physical_property once the converter is got
FromConverter(cls, physical_property, to_unit, converter) ==
    IF converter.exc # "" THEN converter
    ELSE FromValue(cls, to_unit,
                   convert(converter.val, physical_property.value,
                           physical_property.unit_descriptor, to_unit))

\* AbstractPhysicalProperty.from_physical_property
from_physical_property(cls, physical_property, to_unit) ==
    FromConverter(cls, physical_property, to_unit, _get_converter(cls))

\* AbstractPhysicalProperty.to_unit
to_unit(self, unit) == from_physical_property(self.cls, self, unit)

\* SI_UNITS[type(unit)] has an entry for every unit of the descriptor
HasSiUnits(d) ==
    CASE d.kind = "MeasurementUnit" -> TypeOf(d.unit) \in DOMAIN SI_UNITS
      [] d.kind = "Dimension" -> TypeOf(d.unit) \in DOMAIN SI_UNITS
      [] d.kind = "CompositeDimension" ->
            \A i \in DOMAIN (d.numerator \o d.denominator) :
                TypeOf((d.numerator \o d.denominator)[i].unit) \in DOMAIN SI_UNITS
      [] OTHER -> FALSE

\* the descriptor with the SI unit of its class in place of every unit, the
\* powers and the sides kept
SiDescriptor(d) ==
    LET Si(side) ==
            [i \in DOMAIN side |->
                Dimension(SI_UNITS[TypeOf(side[i].unit)], side[i].power)]
    IN  CASE d.kind = "MeasurementUnit" -> Unit(SI_UNITS[TypeOf(d.unit)])
          [] d.kind = "Dimension" -> Dimension(SI_UNITS[TypeOf(d.unit)], d.power)
          [] d.kind = "CompositeDimension" ->
                CompositeDimension(Si(d.numerator), Si(d.denominator))

\* AbstractPhysicalProperty.to_si
to_si(self) == to_unit(self, SiDescriptor(self.unit_descriptor))

\* the classes that have to_base_units
AliasedClasses ==
    {cls \in PropertyClasses :
        PropertyBase[cls] \in {"AliasedPhysicalProperty",
                               "AliasedCompositePhysicalProperty"}}

\* the reference_unit_mapping class attribute
reference_unit_mapping ==
    [Pressure |->
        [alias |-> Unit("PASCAL"),
         composite |-> Over(Over(Unit("KILO_GRAM"), Unit("METER")),
                            Pow(Unit("SECOND"), 2))],
     Energy |->
        [alias |-> Unit("JOULE"),
         composite |-> Over(Times(Unit("KILO_GRAM"), Pow(Unit("METER"), 2)),
                            Pow(Unit("SECOND"), 2))],
     MolarEnergy |->
        [alias |-> Over(Unit("JOULE"), Unit("MOL")),
         composite |-> Over(Over(Times(Unit("KILO_GRAM"), Pow(Unit("METER"), 2)),
                                 Pow(Unit("SECOND"), 2)),
                            Unit("MOL"))],
     ThermalCapacity |->
        [alias |-> Over(Over(Unit("JOULE"), Unit("MOL")), Unit("KELVIN")),
         composite |->
            Over(Over(Over(Times(Unit("KILO_GRAM"), Pow(Unit("METER"), 2)),
                           Pow(Unit("SECOND"), 2)),
                      Unit("MOL")),
                 Unit("KELVIN"))]]

\* CompositePhysicalProperty(value, unit)
CompositePhysicalProperty_init(value, unit) ==
    IF CompositeDimension_from_descriptor(unit).exc # ""
    THEN Raise("WrongUnitDescriptorType")
    ELSE Ok(Property("CompositePhysicalProperty", value,
                     CompositeDimension_from_descriptor(unit).val))

\* CompositePhysicalProperty(value=there.value, unit=composite), or the
\* exception to_unit raised
InBaseUnits(self, there) ==
    IF there.exc # "" THEN there
    ELSE CompositePhysicalProperty_init(there.val.value,
                                        reference_unit_mapping[self.cls].composite)

\* AliasedPhysicalProperty.to_base_units and
\* AliasedCompositePhysicalProperty.to_base_units
to_base_units(self) ==
    InBaseUnits(self, to_unit(self, reference_unit_mapping[self.cls].alias))

(***************************************************************************)
(* The inputs the calls are made with.                                     *)
(***************************************************************************)
(***************************************************************************)
(* CompositeDimension.simplify: the repeated occurrences of a unit on one  *)
(* side are merged by summing their powers, a unit on both sides is        *)
(* cancelled by subtracting the powers, and a term left with a negative    *)
(* power goes to the other side with the positive power.  Only Dimensions  *)
(* of one and the same unit are ever merged or cancelled.  A term is left  *)
(* where its unit first stood; a term that changes sides goes to the end.  *)
(***************************************************************************)
Abs(x) == IF x < 0 THEN -x ELSE x

RECURSIVE PowerSum(_, _)
\* the sum of the powers of the Dimensions of unit u on a side
PowerSum(side, u) ==
    IF side = <<>> THEN 0
    ELSE (IF Head(side).unit = u THEN Head(side).power ELSE 0)
         + PowerSum(Tail(side), u)

RECURSIVE Merged_first_only(_)
\* a merge that keeps the first occurrence of a unit and drops the others
Merged_first_only(side) ==
    IF side = <<>> THEN <<>>
    ELSE LET Other(x) == x.unit # Head(side).unit
         IN  <<Head(side)>> \o Merged_first_only(SelectSeq(Tail(side), Other))

RECURSIVE Merged(_)
\* one side with every unit once, its power the sum of its occurrences
Merged(side) ==
    IF side = <<>> THEN <<>>
    ELSE LET Other(x) == x.unit # Head(side).unit
         IN  <<Dimension(Head(side).unit, PowerSum(side, Head(side).unit))>>
             \o Merged(SelectSeq(Tail(side), Other))

\* a cancellation that removes the smaller term and leaves the other as it is
Cancelled_larger_kept(mine, theirs, tie) ==
    LET Stays(x) ==
            \/ \A i \in DOMAIN theirs : theirs[i].unit # x.unit
            \/ Abs(x.power) > Abs(PowerSum(theirs, x.unit))
            \/ /\ Abs(x.power) = Abs(PowerSum(theirs, x.unit))
               /\ x.power # PowerSum(theirs, x.unit)
               /\ tie
    IN  SelectSeq(mine, Stays)

\* a merged side after its units are cancelled against the other merged
\* side: the term of the smaller magnitude is removed, the other one is
\* left with the difference, and two equal powers remove both.  Of two
\* opposite powers of one magnitude the side with tie set keeps its term.
Cancelled(mine, theirs, tie) ==
    LET Stays(x) ==
            \/ \A i \in DOMAIN theirs : theirs[i].unit # x.unit
            \/ Abs(x.power) > Abs(PowerSum(theirs, x.unit))
            \/ /\ Abs(x.power) = Abs(PowerSum(theirs, x.unit))
               /\ x.power # PowerSum(theirs, x.unit)
               /\ tie
        kept == SelectSeq(mine, Stays)
    IN  [i \in DOMAIN kept |->
            Dimension(kept[i].unit,
                      kept[i].power - PowerSum(theirs, kept[i].unit))]

\* negative powers left where they are
Moved_nowhere(mine, theirs) == mine

\* a cancelled side after the negative powers changed sides: its own terms
\* of a positive power, then the other side's terms of a negative power
\* with the power negated.  A term of power zero is no factor and is gone.
Moved(mine, theirs) ==
    LET Positive(x) == x.power > 0
        Negative(x) == x.power < 0
        coming == SelectSeq(theirs, Negative)
    IN  SelectSeq(mine, Positive)
        \o [i \in DOMAIN coming |-> Dimension(coming[i].unit, -coming[i].power)]

\* the composite as c.simplify() leaves it
simplify(c) ==
    LET num == Cancelled(Merged(c.numerator), Merged(c.denominator), TRUE)
        den == Cancelled(Merged(c.denominator), Merged(c.numerator), FALSE)
    IN  CompositeDimension(Moved(num, den), Moved(den, num))

\* the largest power a Dimension of the inputs is raised to
MaxPower == 3

\* the most Dimensions on one side of a composite built for isinstance
MaxTerms == 2

\* the most descriptor objects a caller builds
MaxObjects == 3

Values == {FromInt(10), FromInt(-40), FromInt(0)}

TemperatureValues == {FromInt(0), FromInt(500), FromInt(1000), FromInt(-40)}

UnitPool == {Unit(u) : u \in AllUnits}

DimUnits == {"CELCIUS", "KELVIN", "METER", "CENTI_METER", "INCH", "PSI"}

DimPool == {Pow(Unit(u), p) : u \in DimUnits, p \in 1..MaxPower}

KG == Unit("KILO_GRAM")

\* composite descriptors, written as the callers write them
CompPool ==
    {Over(KG, Unit("HOUR")),
     Over(Unit("METRIC_TONNE"), Unit("DAY")),
     Over(Unit("POUND"), Unit("MINUTE")),
     Over(Times(KG, KG), Unit("HOUR")),
     Over(Over(KG, Unit("HOUR")), Unit("SECOND")),
     Over(Unit("HOUR"), KG),
     Over(Pow(Unit("METER"), 3), Unit("KILO_MOL")),
     Over(Pow(Unit("CENTI_METER"), 3), Unit("MOL")),
     Over(Pow(Unit("METER"), 2), Unit("MOL")),
     Over(Unit("KILO_JOULE"), Unit("MOL")),
     Over(Unit("KILO_CALORIE"), Unit("KILO_MOL")),
     Over(Unit("MEGA_JOULE"), Unit("MOL")),
     Over(Over(Over(Times(KG, Pow(Unit("METER"), 2)), Pow(Unit("SECOND"), 2)),
               Unit("KELVIN")), Unit("MOL")),
     Over(Over(Over(Times(KG, Pow(Unit("METER"), 2)), Pow(Unit("SECOND"), 2)),
               Unit("RANKINE")), Unit("MOL")),
     Over(Over(Over(Times(Unit("GRAM"), Pow(Unit("CENTI_METER"), 2)),
                    Pow(Unit("MINUTE"), 2)),
               Unit("CELCIUS")), Unit("KILO_MOL")),
     Over(Over(KG, Unit("METER")), Pow(Unit("SECOND"), 2)),
     Over(Over(Unit("GRAM"), Unit("CENTI_METER")), Pow(Unit("MINUTE"), 2))}

Descriptors == UnitPool \cup DimPool \cup CompPool

\* the units a property is constructed with
SomeUnits ==
    {Unit(u) : u \in {"CELCIUS", "KELVIN", "FAHRENHEIT", "RANKINE", "MILLI_METER",
                      "FOOT", "GRAM", "POUND", "KILO_MOL", "HOUR", "BAR",
                      "PASCAL", "KILO_PASCAL", "JOULE", "MEGA_JOULE", "BTU"}}

ConstructUnits == SomeUnits \cup DimPool \cup CompPool

\* the unit class a converter class is registered under
FamilyOf(cls) ==
    (CHOOSE e \in Range(Decorations) : e.cls = cls).key.unit_type

\* descriptors that belong to no converter's own family or shape
Foreign ==
    {Unit("KELVIN"), Unit("BAR"), Pow(Unit("METER"), 1), Pow(Unit("METER"), 2),
     Over(KG, Unit("HOUR"))}

\* the descriptors a converter class is called with
ConverterInputs(cls) ==
    Foreign \cup
    (CASE cls \in AbsoluteConverters \cup {"TemperatureUnitConverter"} ->
            {Unit(u) : u \in Members[FamilyOf(cls)]}
       [] cls = "VolumeUnitConverter" -> DimPool
       [] OTHER -> CompPool)

ConverterValues(cls) ==
    IF cls = "TemperatureUnitConverter" THEN TemperatureValues
    ELSE IF cls \in CompositeConverters THEN {FromInt(10)}
    ELSE Values

\* the operands of * : unit descriptors and generic descriptors
AlgebraPool ==
    {KG, Unit("HOUR"), Unit("METER"), Unit("KELVIN"), Pow(KG, 2)}
    \cup {Pow(Unit("METER"), p) : p \in 1..MaxPower}
    \cup {Over(KG, Unit("HOUR")), Over(Unit("HOUR"), KG),
          Over(Times(KG, KG), Unit("HOUR")),
          Over(Pow(Unit("METER"), 3), Unit("KILO_MOL"))}
    \cup {UnitClass("MassUnit"), UnitClass("TimeUnit"), UnitClass("LengthUnit")}
    \cup {Pow(UnitClass("LengthUnit"), p) : p \in 1..MaxPower}
    \cup {MassRateGeneric, MolarVolumeGeneric,
          Over(UnitClass("TimeUnit"), UnitClass("MassUnit")),
          Over(Times(UnitClass("MassUnit"), UnitClass("MassUnit")),
               UnitClass("TimeUnit"))}

\* the composites whose string is taken: the composites of the pool and
\* the products and quotients of two units or Dimensions
StrPool ==
    CompPool \cup
    {Mul(a, b).val : a \in DimPool \cup {KG}, b \in {KG, Pow(Unit("METER"), 2)}} \cup
    {TrueDiv(Mul(a, b).val, a).val :
        a \in {KG, Pow(Unit("METER"), 2)}, b \in {Unit("HOUR"), Pow(Unit("FOOT"), 3)}}

\* right operands of * and / that are no descriptors: None, a number, a
\* string, a list, a plain object
NonDescriptors ==
    {None, [kind |-> "int"], [kind |-> "float"], [kind |-> "str"],
     [kind |-> "list"], [kind |-> "object"]}

SeqsUpTo(S, n) == UNION {[1..m -> S] : m \in 0..n}

\* the composites that are simplified: every composite of up to MaxTerms
\* Dimensions on a side, of two units of one family with positive and
\* negative powers, and the composites of the unit tests
SimplifyPool ==
    {CompositeDimension(n, d) :
        n, d \in SeqsUpTo({Dimension(u, p) : u \in {"METER", "KILO_METER"},
                                              p \in {-1, 1, 2}}, MaxTerms)} \cup
    {CompositeDimension(<<Dimension("METER", 1), Dimension("SECOND", 1)>>,
                        <<Dimension("SECOND", 1)>>),
     CompositeDimension(<<Dimension("KELVIN", 2)>>, <<Dimension("KELVIN", 1)>>),
     CompositeDimension(<<Dimension("SECOND", 1), Dimension("SECOND", 1)>>,
                        <<Dimension("RANKINE", 1)>>),
     CompositeDimension(<<Dimension("FOOT", 1)>>,
                        <<Dimension("GRAM", 1), Dimension("GRAM", 1)>>),
     CompositeDimension(<<Dimension("PASCAL", 1), Dimension("METER", 1),
                          Dimension("SECOND", 2)>>,
                        <<Dimension("KILO_GRAM", 1)>>),
     CompositeDimension(<<Dimension("FOOT", -1)>>, <<Dimension("FOOT", -2)>>),
     CompositeDimension(<<>>, <<Dimension("BAR", -1)>>)}

\* composites and generic shapes for isinstance, repeated entries included
TermPool == {Dimension("KILO_GRAM", 1), Dimension("HOUR", 1)}

GenericTermPool == {GenericDimension("MassUnit", 1), GenericDimension("TimeUnit", 1)}

InstancePool ==
    {CompositeDimension(n, d) : n \in SeqsUpTo(TermPool, MaxTerms),
                                d \in SeqsUpTo(TermPool, MaxTerms)}

ShapePool ==
    {GenericCompositeDimension(n, d) : n \in SeqsUpTo(GenericTermPool, MaxTerms),
                                       d \in SeqsUpTo(GenericTermPool, MaxTerms)}

SimpleShapes ==
    {UnitClass(t) : t \in UnitTypes}
    \cup {Pow(UnitClass(t), p) : t \in {"LengthUnit", "TemperatureUnit"},
                                 p \in 1..MaxPower}

\* the most items the registry holds in the runs that register converters
MaxRegistered == 3

\* the keys converters are registered under and looked up with: unit
\* classes, a power, composites, the same composite written in another
\* order, and a composite with a repeated term
RegistryKeys ==
    {UnitClass("LengthUnit"), Pow(UnitClass("LengthUnit"), 3), MassRateGeneric,
     Over(Times(UnitClass("MassUnit"), UnitClass("MassUnit")), UnitClass("TimeUnit")),
     Over(Times(UnitClass("MassUnit"), Pow(UnitClass("LengthUnit"), 2)),
          UnitClass("TimeUnit")),
     Over(Times(Pow(UnitClass("LengthUnit"), 2), UnitClass("MassUnit")),
          UnitClass("TimeUnit"))}

\* the generic descriptors get_converter is called with
LookupKeys ==
    RegistryKeys \cup
    {UnitClass("TemperatureUnit"), GenericDimension("LengthUnit", 1),
     Pow(UnitClass("LengthUnit"), 2),
     Over(UnitClass("TimeUnit"), UnitClass("MassUnit")),
     Over(Over(Over(Times(Pow(UnitClass("LengthUnit"), 2), UnitClass("MassUnit")),
                    UnitClass("AmountUnit")),
               UnitClass("TemperatureUnit")),
          Pow(UnitClass("TimeUnit"), 2))}

RegistryClasses == {"LengthUnitConverter", "MassRateUnitConverter"}

NoCall == [op |-> "none"]

(***************************************************************************)
(* The calls.                                                              *)
(***************************************************************************)
\* p = cls(value, unit)
Construct ==
    /\ call = NoCall
    /\ prop = None
    /\ \E cls \in PropertyClasses, value \in Values, unit \in ConstructUnits :
        /\ call' = [op |-> "construct", cls |-> cls, value |-> value, unit |-> unit]
        /\ ret' = New(cls, value, unit)
        /\ prop' = IF ret'.exc = "" THEN ret'.val ELSE None
    /\ UNCHANGED <<_converters, heap>>

\* a to_unit that converts the property it is called on
ToUnit_in_place ==
    /\ call = NoCall
    /\ prop # None
    /\ \E unit \in Descriptors :
        /\ call' = [op |-> "to_unit", unit |-> unit]
        /\ ret' = to_unit(prop, unit)
        /\ prop' = IF ret'.exc = "" THEN ret'.val ELSE prop
    /\ UNCHANGED <<_converters, heap>>

\* p.to_unit(unit)
ToUnit ==
    /\ call = NoCall
    /\ prop # None
    /\ \E unit \in Descriptors :
        /\ call' = [op |-> "to_unit", unit |-> unit]
        /\ ret' = to_unit(prop, unit)
    /\ UNCHANGED <<_converters, prop, heap>>

\* p.to_si()
ToSi ==
    /\ call = NoCall
    /\ prop # None
    /\ HasSiUnits(prop.unit_descriptor)
    /\ call' = [op |-> "to_si"]
    /\ ret' = to_si(prop)
    /\ UNCHANGED <<_converters, prop, heap>>

\* p.to_base_units()
ToBaseUnits ==
    /\ call = NoCall
    /\ prop # None
    /\ prop.cls \in AliasedClasses
    /\ call' = [op |-> "to_base_units"]
    /\ ret' = to_base_units(prop)
    /\ UNCHANGED <<_converters, prop, heap>>

\* there.to_unit(unit), or the exception the first to_unit raised
Back(there, unit) ==
    IF there.exc # "" THEN there ELSE to_unit(there.val, unit)

\* p.to_unit(unit).to_unit(p.unit_descriptor)
ToUnitAndBack ==
    /\ call = NoCall
    /\ prop # None
    /\ \E unit \in Descriptors :
        /\ call' = [op |-> "to_unit_and_back", unit |-> unit]
        /\ ret' = Back(to_unit(prop, unit), prop.unit_descriptor)
    /\ UNCHANGED <<_converters, prop, heap>>

\* cls.get_factor(from_descriptor, to_descriptor) of an absolute converter
GetFactor ==
    /\ call = NoCall
    /\ prop = None
    /\ \E cls \in AbsoluteConverters :
        \E from_descriptor \in ConverterInputs(cls),
           to_descriptor \in ConverterInputs(cls) :
            /\ call' = [op |-> "get_factor", cls |-> cls,
                        from |-> from_descriptor, to |-> to_descriptor]
            /\ ret' = get_factor(cls, from_descriptor, to_descriptor)
    /\ UNCHANGED <<_converters, prop, heap>>

\* cls.convert(value, from_descriptor, to_descriptor)
Convert ==
    /\ call = NoCall
    /\ prop = None
    /\ \E cls \in ConverterClasses :
        \E value \in ConverterValues(cls),
           from_descriptor \in ConverterInputs(cls),
           to_descriptor \in ConverterInputs(cls) :
            /\ call' = [op |-> "convert", cls |-> cls, value |-> value,
                        from |-> from_descriptor, to |-> to_descriptor]
            /\ ret' = convert(cls, value, from_descriptor, to_descriptor)
    /\ UNCHANGED <<_converters, prop, heap>>

\* a * b
Multiply ==
    /\ call = NoCall
    /\ prop = None
    /\ \E a \in AlgebraPool, b \in AlgebraPool \cup NonDescriptors :
        /\ call' = [op |-> "mul", a |-> a, b |-> b]
        /\ ret' = Mul(a, b)
    /\ UNCHANGED <<_converters, prop, heap>>

\* a / b
Divide ==
    /\ call = NoCall
    /\ prop = None
    /\ \E a \in AlgebraPool, b \in AlgebraPool \cup NonDescriptors :
        /\ call' = [op |-> "truediv", a |-> a, b |-> b]
        /\ ret' = TrueDiv(a, b)
    /\ UNCHANGED <<_converters, prop, heap>>

\* descriptor.isinstance(generic)
CallIsInstance ==
    /\ call = NoCall
    /\ prop = None
    /\ \E pair \in (InstancePool \X ShapePool)
                   \cup ((SomeUnits \cup DimPool \cup CompPool) \X SimpleShapes)
                   \cup (CompPool \X ({generic_descriptor[c] : c \in PropertyClasses} \ {None})) :
        /\ call' = [op |-> "isinstance", descriptor |-> pair[1], generic |-> pair[2]]
        /\ ret' = Ok(IsInstance(pair[1], pair[2]))
    /\ UNCHANGED <<_converters, prop, heap>>

\* a ** power
CallPower ==
    /\ call = NoCall
    /\ prop = None
    /\ \E a \in AlgebraPool, power \in 1..MaxPower :
        /\ call' = [op |-> "pow", a |-> a, power |-> power]
        /\ ret' = Power(a, power)
    /\ UNCHANGED <<_converters, prop, heap>>

\* str(c) of a CompositeDimension
CallStr ==
    /\ call = NoCall
    /\ prop = None
    /\ \E c \in StrPool :
        /\ call' = [op |-> "str", c |-> c]
        /\ ret' = Ok(CompositeDimension_str(c))
    /\ UNCHANGED <<_converters, prop, heap>>

\* c.simplify() of a CompositeDimension: the call works on c itself, and
\* what it leaves of c is kept as the outcome of the call
CallSimplify ==
    /\ call = NoCall
    /\ prop = None
    /\ \E c \in SimplifyPool :
        /\ call' = [op |-> "simplify", c |-> c]
        /\ ret' = Ok(simplify(c))
    /\ UNCHANGED <<_converters, prop, heap>>

\* a get_converter that leaves an entry behind for a key it did not find
GetConverter_defaulting ==
    /\ call = NoCall
    /\ prop = None
    /\ \E generic \in LookupKeys :
        /\ call' = [op |-> "get_converter", generic |-> generic]
        /\ ret' = get_converter(generic)
        /\ _converters' = IF ret'.exc = "" THEN _converters
                          ELSE Registered(_converters, generic, "None")
    /\ UNCHANGED <<prop, heap>>

\* get_converter(generic)
GetConverter ==
    /\ call = NoCall
    /\ prop = None
    /\ \E generic \in LookupKeys :
        /\ call' = [op |-> "get_converter", generic |-> generic]
        /\ ret' = get_converter(generic)
    /\ UNCHANGED <<_converters, prop, heap>>

\* register_converter(generic)(cls)
Register ==
    /\ call = NoCall
    /\ prop = None
    /\ \E generic \in RegistryKeys, cls \in RegistryClasses :
        /\ Len(Registered(_converters, generic, cls)) <= MaxRegistered
        /\ call' = [op |-> "register_converter", generic |-> generic, cls |-> cls]
        /\ _converters' = Registered(_converters, generic, cls)
        /\ ret' = Ok(cls)
    /\ UNCHANGED <<prop, heap>>

\* d = Dimension(unit) or g = GenericDimension(unit_type): a new object
NewDimension ==
    /\ call = NoCall
    /\ prop = None
    /\ Len(heap) < MaxObjects
    /\ \E d \in {Dimension("KILO_GRAM", 1), Dimension("HOUR", 1),
                  GenericDimension("MassUnit", 1)} :
        /\ call' = [op |-> "new", d |-> d]
        /\ heap' = Append(heap, d)
        /\ ret' = Ok(Len(heap) + 1)
    /\ UNCHANGED <<_converters, prop>>

\* d ** power of a Dimension or GenericDimension object d: the power of d
\* itself is multiplied, and d is what the call returns
PowObject ==
    /\ call = NoCall
    /\ prop = None
    /\ \E self \in DOMAIN heap, power \in 2..MaxPower :
        /\ heap[self].kind \in {"Dimension", "GenericDimension"}
        /\ heap[self].power * power <= MaxPower
        /\ call' = [op |-> "pow_object", self |-> self, power |-> power]
        /\ heap' = [heap EXCEPT ![self] = Pow(heap[self], power)]
        /\ ret' = Ok(self)
    /\ UNCHANGED <<_converters, prop>>

\* a * b of two objects
MulObjects ==
    /\ call = NoCall
    /\ prop = None
    /\ Len(heap) < MaxObjects
    /\ \E a, b \in DOMAIN heap :
        /\ call' = [op |-> "mul_objects", a |-> a, b |-> b]
        /\ heap' = MulAt(heap, a, b)
        /\ ret' = IF heap' = heap
                  THEN Raise("InvalidUnitDescriptorBinaryOperation")
                  ELSE Ok(Len(heap'))
    /\ UNCHANGED <<_converters, prop>>

\* a / b of two objects
DivObjects ==
    /\ call = NoCall
    /\ prop = None
    /\ Len(heap) < MaxObjects
    /\ \E a, b \in DOMAIN heap :
        /\ call' = [op |-> "truediv_objects", a |-> a, b |-> b]
        /\ heap' = TrueDivAt(heap, a, b)
        /\ ret' = IF heap' = heap
                  THEN Raise("InvalidUnitDescriptorBinaryOperation")
                  ELSE Ok(Len(heap'))
    /\ UNCHANGED <<_converters, prop>>

\* the caller lets go of what the call returned
Discard ==
    /\ call # NoCall
    /\ call' = NoCall
    /\ ret' = None
    /\ UNCHANGED <<_converters, prop, heap>>

\* the caller lets go of the property
Drop ==
    /\ call = NoCall
    /\ prop # None
    /\ prop' = None
    /\ UNCHANGED <<_converters, call, ret, heap>>

Init ==
    /\ _converters = Imported(Len(Decorations))
    /\ prop = None
    /\ call = NoCall
    /\ ret = None
    /\ heap = <<>>

Next ==
    \/ Construct
    \/ ToUnit
    \/ ToUnitAndBack
    \/ ToSi
    \/ ToBaseUnits
    \/ GetFactor
    \/ Convert
    \/ Multiply
    \/ Divide
    \/ CallIsInstance
    \/ CallPower
    \/ CallStr
    \/ CallSimplify
    \/ GetConverter
    \/ Discard
    \/ Drop

Spec == Init /\ [][Next]_vars

\* the runs in which the caller builds descriptor objects and combines them
ObjectNext ==
    \/ NewDimension
    \/ PowObject
    \/ MulObjects
    \/ DivObjects
    \/ Discard

ObjectSpec == Init /\ [][ObjectNext]_vars

\* converters.py as its import begins: the registry is the empty dict
RegistryInit ==
    /\ _converters = <<>>
    /\ prop = None
    /\ call = NoCall
    /\ ret = None
    /\ heap = <<>>

RegistryNext ==
    \/ Register
    \/ GetConverter
    \/ Discard

\* the runs in which converters are registered and looked up
RegistrySpec == RegistryInit /\ [][RegistryNext]_vars

(***************************************************************************)
(* What the specification means by "matches": the family and the power of  *)
(* a descriptor, and the multiset of them on each side of a composite.     *)
(***************************************************************************)
\* the (family, power) pair of a unit, a Dimension, a unit class or a
\* GenericDimension
FamilyPower(d) ==
    CASE d.kind = "MeasurementUnit" -> <<TypeOf(d.unit), 1>>
      [] d.kind = "Dimension" -> <<TypeOf(d.unit), d.power>>
      [] d.kind = "MeasurementUnitType" -> <<d.unit_type, 1>>
      [] d.kind = "GenericDimension" -> <<d.unit_type, d.power>>

Count(s, x) == Cardinality({i \in DOMAIN s : s[i] = x})

\* s and t hold the same elements the same number of times
SameBag(s, t) == \A x \in Range(s) \cup Range(t) : Count(s, x) = Count(t, x)

FamilyPowers(side) == [i \in DOMAIN side |-> FamilyPower(side[i])]

\* the descriptor has the family and power (on each side, as a multiset)
\* that the generic descriptor states
Matches(d, generic) ==
    IF d.kind = "CompositeDimension"
    THEN /\ generic.kind = "GenericCompositeDimension"
         /\ SameBag(FamilyPowers(d.numerator), FamilyPowers(generic.numerator))
         /\ SameBag(FamilyPowers(d.denominator), FamilyPowers(generic.denominator))
    ELSE /\ generic.kind \in {"MeasurementUnitType", "GenericDimension"}
         /\ FamilyPower(d) = FamilyPower(generic)

PlainOrExponent ==
    {c \in PropertyClasses :
        /\ PropertyBase[c] \in {"PhysicalProperty", "ExponentPhysicalProperty"}
        /\ generic_descriptor[c] # None}

\* C1: to_unit of a Plain or Exponent property returns a property only for a
\* target of the family and power of the class's generic descriptor; for any
\* other target it raises InvalidUnitConversion and returns nothing.
C1_ToUnitRejectsMismatch ==
    (call.op = "to_unit" /\ prop.cls \in PlainOrExponent) =>
        /\ ret.exc = "" => Matches(call.unit, generic_descriptor[prop.cls])
        /\ ~Matches(call.unit, generic_descriptor[prop.cls]) =>
                ret = Raise("InvalidUnitConversion")

\* a Volume in cm^3 asked for m^2: same family, another exponent
C1_Witness ==
    /\ call.op = "to_unit"
    /\ prop.cls = "Volume"
    /\ prop.unit_descriptor = Dimension("CENTI_METER", 3)
    /\ call.unit = Dimension("METER", 2)
    /\ ret = Raise("InvalidUnitConversion")

\* C2: constructing a property with a unit descriptor whose family or power
\* does not match the class's generic descriptor fails with
\* WrongUnitDescriptorType.
C2_ConstructRejectsMismatch ==
    (call.op = "construct" /\ ~Matches(call.unit, generic_descriptor[call.cls])) =>
        ret = Raise("WrongUnitDescriptorType")

\* C3: for every absolute converter and every unit u of its family,
\* get_factor(u, u) is 1.
C3_IdentityFactor ==
    (/\ call.op = "get_factor"
     /\ call.from = call.to
     /\ call.from.kind = "MeasurementUnit"
     /\ call.from.unit \in Members[FamilyOf(call.cls)]) =>
        ret = Ok(One)

\* the absolute converter registered for a unit class
ConverterOf(t) == (CHOOSE e \in Range(Decorations) : e.key = UnitClass(t)).cls

\* C4: a round trip gives the value back: p.to_unit(u).to_unit(p's unit) has
\* p's value for every u of p's family, get_factor(a, b) * get_factor(b, a)
\* is 1 for all units a, b of an absolute family, and a Temperature
\* conversion a -> b -> a is the identity.
C4_RoundTrip ==
    /\ (/\ call.op = "to_unit_and_back"
        /\ Matches(prop.unit_descriptor, generic_descriptor[prop.cls])
        /\ Matches(call.unit, generic_descriptor[prop.cls])) =>
            (ret.exc = "" /\ ret.val.value = prop.value)
    /\ (/\ call.op = "get_factor"
        /\ Matches(call.from, UnitClass(FamilyOf(call.cls)))
        /\ Matches(call.to, UnitClass(FamilyOf(call.cls)))) =>
            /\ ret.exc = ""
            /\ RMul(ret.val, get_factor(call.cls, call.to, call.from).val) = One
    /\ (/\ call.op = "convert"
        /\ call.cls = "TemperatureUnitConverter"
        /\ Matches(call.from, UnitClass("TemperatureUnit"))
        /\ Matches(call.to, UnitClass("TemperatureUnit"))) =>
            /\ ret.exc = ""
            /\ convert(call.cls, ret.val, call.to, call.from) = Ok(call.value)

(***************************************************************************)
(* The temperature formulas as the specification writes them.              *)
(***************************************************************************)
\* degrees Celsius of a value in a temperature unit: the inverses of
\* K = C + 273.15, F = 1.8 C + 32, R = (C + 273.15) 1.8
ToCelsius(value, unit) ==
    CASE unit = "CELCIUS" -> value
      [] unit = "KELVIN" -> RSub(value, Q(27315, 100))
      [] unit = "FAHRENHEIT" -> RDiv(RSub(value, FromInt(32)), Q(18, 10))
      [] unit = "RANKINE" -> RSub(RDiv(value, Q(18, 10)), Q(27315, 100))

FromCelsius(c, unit) ==
    CASE unit = "CELCIUS" -> c
      [] unit = "KELVIN" -> RAdd(c, Q(27315, 100))
      [] unit = "FAHRENHEIT" -> RAdd(RMul(Q(18, 10), c), FromInt(32))
      [] unit = "RANKINE" -> RMul(RAdd(c, Q(27315, 100)), Q(18, 10))

TemperatureCall(value, from, to) ==
    /\ call.op = "convert"
    /\ call.cls = "TemperatureUnitConverter"
    /\ call.value = FromInt(value)
    /\ call.from = Unit(from)
    /\ call.to = Unit(to)

\* C5: TemperatureUnitConverter.convert maps the value to Celsius and Celsius
\* to the target with K = C + 273.15, F = 1.8 C + 32, R = (C + 273.15) 1.8
\* and their inverses, for all 16 pairs of units; 0 C is 273.15 K, 1000 K is
\* 1800 R, 500 K is (500 - 273.15) 1.8 + 32 F.
C5_TemperatureFormulas ==
    /\ (/\ call.op = "convert"
        /\ call.cls = "TemperatureUnitConverter"
        /\ call.from.kind = "MeasurementUnit"
        /\ call.to.kind = "MeasurementUnit"
        /\ call.from.unit \in TemperatureUnit
        /\ call.to.unit \in TemperatureUnit) =>
            ret = Ok(FromCelsius(ToCelsius(call.value, call.from.unit), call.to.unit))
    /\ TemperatureCall(0, "CELCIUS", "KELVIN") => ret = Ok(Q(27315, 100))
    /\ TemperatureCall(1000, "KELVIN", "RANKINE") => ret = Ok(FromInt(1800))
    /\ TemperatureCall(500, "KELVIN", "FAHRENHEIT") => ret = Ok(Q(44033, 100))

\* 500 K converted to degrees Fahrenheit
C5_Witness ==
    /\ TemperatureCall(500, "KELVIN", "FAHRENHEIT")
    /\ ret = Ok(Q(44033, 100))

(***************************************************************************)
(* The composite factor as the specification writes it.                    *)
(***************************************************************************)
\* the Dimension of a side of `to` with the family and power of d
Counterpart(d, to_side) ==
    CHOOSE i \in DOMAIN to_side : FamilyPower(to_side[i]) = FamilyPower(d)

HasCounterpart(d, to_side) ==
    \E i \in DOMAIN to_side : FamilyPower(to_side[i]) = FamilyPower(d)

\* the product over the Dimensions d of a side of
\* get_factor(d.unit, counterpart's unit) ** d.power
RECURSIVE SidePowerFactor(_, _, _)
SidePowerFactor(from_side, to_side, i) ==
    IF i > Len(from_side) THEN One
    ELSE LET d == from_side[i]
             t == to_side[Counterpart(d, to_side)]
             f == get_factor(ConverterOf(TypeOf(d.unit)), Unit(d.unit), Unit(t.unit)).val
         IN  RMul(RPow(f, d.power), SidePowerFactor(from_side, to_side, i + 1))

PowerFactor(from, to) ==
    RDiv(SidePowerFactor(from.numerator, to.numerator, 1),
         SidePowerFactor(from.denominator, to.denominator, 1))

\* some Dimension of the descriptor is a temperature
HasTemperature(d) ==
    /\ d.kind = "CompositeDimension"
    /\ \E x \in Range(d.numerator) \cup Range(d.denominator) :
            x.unit \in TemperatureUnit

\* C6: for descriptors F and T of a converter's generic shape, the factor is
\* the product over the numerator Dimensions d of F of
\* get_factor(d.unit, matching T unit) ** d.power, divided by the same
\* product over the denominator.
C6_CompositeFactor ==
    (/\ call.op = "convert"
     /\ call.cls \in CompositeConverters
     /\ Matches(call.from, CompositeConverterGeneric[call.cls])
     /\ Matches(call.to, CompositeConverterGeneric[call.cls])
     /\ ~HasTemperature(call.from)) =>
        ret = Ok(RMul(call.value, PowerFactor(call.from, call.to)))

\* C7: a composite converter's convert raises InvalidUnitConversion whenever
\* from or to is no instance of the converter's generic shape, or a
\* Dimension of from has no Dimension of its family and power on the same
\* side of to.
C7_CompositeRejects ==
    (/\ call.op = "convert"
     /\ call.cls \in CompositeConverters
     /\ \/ ~Matches(call.from, CompositeConverterGeneric[call.cls])
        \/ ~Matches(call.to, CompositeConverterGeneric[call.cls])
        \/ \E d \in Range(call.from.numerator) :
                ~HasCounterpart(d, call.to.numerator)
        \/ \E d \in Range(call.from.denominator) :
                ~HasCounterpart(d, call.to.denominator)) =>
        ret = Raise("InvalidUnitConversion")

\* C8: a composite conversion whose from or to descriptor holds a
\* temperature Dimension raises InvalidUnitConversion.
C8_TemperatureTermRejected ==
    (/\ call.op = "convert"
     /\ call.cls \in CompositeConverters
     /\ HasTemperature(call.from) \/ HasTemperature(call.to)) =>
        ret = Raise("InvalidUnitConversion")

\* C9: for units or Dimensions a and b, a * b equals b * a and has the same
\* hash and the same string; for unit classes or GenericDimensions g1 and
\* g2, g1 * g2 equals g2 * g1.
C9_ProductCommutes ==
    /\ (/\ call.op = "mul"
        /\ call.a.kind \in {"MeasurementUnit", "Dimension"}
        /\ call.b.kind \in {"MeasurementUnit", "Dimension"}) =>
            /\ ret.exc = ""
            /\ CompositeDimension_eq(ret.val, Mul(call.b, call.a).val)
            /\ CompositeDimension_eq(Mul(call.b, call.a).val, ret.val)
            /\ Hash(ret.val) = Hash(Mul(call.b, call.a).val)
            /\ CompositeDimension_str(ret.val)
                    = CompositeDimension_str(Mul(call.b, call.a).val)
    /\ (/\ call.op = "mul"
        /\ call.a.kind \in {"MeasurementUnitType", "GenericDimension"}
        /\ call.b.kind \in {"MeasurementUnitType", "GenericDimension"}) =>
            /\ ret.exc = ""
            /\ GenericCompositeDimension_eq(ret.val, Mul(call.b, call.a).val)
            /\ GenericCompositeDimension_eq(Mul(call.b, call.a).val, ret.val)

\* kg * m^2, built in the other order than its string lists it
C9_Witness ==
    /\ call.op = "mul"
    /\ call.a = Unit("KILO_GRAM")
    /\ call.b = Dimension("METER", 2)
    /\ ret.exc = ""
    /\ ret.val.numerator = <<Dimension("KILO_GRAM", 1), Dimension("METER", 2)>>
    /\ Mul(call.b, call.a).val.numerator # ret.val.numerator

\* C10: CompositeDimension.isinstance(generic) is true exactly when the
\* multiset of (family, power) pairs of each side equals the multiset of the
\* generic shape's side; a composite with a repeated entry matches no shape
\* that lists the entry once.
C10_IsInstanceMultiset ==
    (/\ call.op = "isinstance"
     /\ call.descriptor.kind = "CompositeDimension"
     /\ call.generic.kind = "GenericCompositeDimension") =>
        ret = Ok(Matches(call.descriptor, call.generic))

(***************************************************************************)
(* C11: to_base_units.                                                     *)
(***************************************************************************)
\* how many Pascal one unit of pressure is, and how many Joule one unit of
\* energy, how many mol one unit of amount
InPascal ==
    [MILLI_BAR |-> Q(100, 1), BAR |-> Q(100000, 1),
     PSI |-> RDiv(Q(100000, 1), BAR_TO_PSI), PASCAL |-> One,
     KILO_PASCAL |-> Q(1000, 1)]

InJoule ==
    [JOULE |-> One, KILO_JOULE |-> Q(1000, 1), MEGA_JOULE |-> Q(1000000, 1),
     GIGA_JOULE |-> Q(1000000000, 1), CALORIE |-> RInv(JOULE_TO_CALORIE),
     KILO_CALORIE |-> RInv(JOULE_TO_KILOCALORIE), BTU |-> RInv(JOULE_TO_BTU)]

InMol == [MOL |-> One, KILO_MOL |-> Q(1000, 1)]

\* the property's unit expressed in its class's reference alias unit
InReference(p) ==
    CASE p.cls = "Pressure" -> InPascal[p.unit_descriptor.unit]
      [] p.cls = "Energy" -> InJoule[p.unit_descriptor.unit]
      [] p.cls = "MolarEnergy" ->
            RDiv(InJoule[p.unit_descriptor.numerator[1].unit],
                 InMol[p.unit_descriptor.denominator[1].unit])

\* the aliased property is in a unit of its own family or shape
OwnUnit(p) == IsInstance(p.unit_descriptor, generic_descriptor[p.cls])

\* C11: to_base_units() of an aliased property (Pressure, Energy,
\* MolarEnergy) in a unit of its own returns a CompositePhysicalProperty
\* whose value is the original value converted to the reference alias unit
\* (Pascal, Joule, Joule/mol) and whose unit_descriptor is the class's
\* reference composite in SI base units.
C11_ToBaseUnits ==
    (call.op = "to_base_units" /\ OwnUnit(prop)) =>
        /\ ret.exc = ""
        /\ ret.val.cls = "CompositePhysicalProperty"
        /\ ret.val.unit_descriptor = reference_unit_mapping[prop.cls].composite
        /\ ret.val.value = RMul(prop.value, InReference(prop))

(***************************************************************************)
(* C12: get_converter and the registered keys.                             *)
(***************************************************************************)
\* a register_converter call with a key equal (==) to g has been made
HasEqualKey(g) == \E i \in DOMAIN _converters : Generic_eq(_converters[i].key, g)

\* C12: get_converter(g) raises UndefinedConverter for every generic
\* descriptor g for which no register_converter call with an equal key has
\* been made, and returns a converter class otherwise.
C12_GetConverter ==
    call.op = "get_converter" =>
        IF HasEqualKey(call.generic)
        THEN ret.exc = "" /\ ret.val \in ConverterClasses
        ELSE ret.exc = "UndefinedConverter"

(***************************************************************************)
(* C13: the factor through the family's pivot unit.                        *)
(***************************************************************************)
\* the canonical SI unit of an absolute family: its SI_UNITS entry, and the
\* alias reference unit of the aliased families
PivotOf(t) ==
    CASE t = "PressureUnit" -> Unit("PASCAL")
      [] t = "EnergyUnit" -> Unit("JOULE")
      [] OTHER -> Unit(SI_UNITS[t])

\* get_factor was called with two units of the converter's family
OwnUnits ==
    /\ call.op = "get_factor"
    /\ call.from.kind = "MeasurementUnit"
    /\ call.to.kind = "MeasurementUnit"
    /\ call.from.unit \in Members[FamilyOf(call.cls)]
    /\ call.to.unit \in Members[FamilyOf(call.cls)]

C14_CompositePowerRaises ==
    (call.op = "pow" /\ call.a.kind = "CompositeDimension") =>
        ret = Raise("InvalidUnitDescriptorBinaryOperation")

(***************************************************************************)
(* C15: * and / with an operand that is no descriptor of the same level.   *)
(***************************************************************************)
UnitLevel == {"MeasurementUnit", "Dimension", "CompositeDimension"}

GenericLevel == {"MeasurementUnitType", "GenericDimension", "GenericCompositeDimension"}

\* both operands are unit descriptors, or both are generic descriptors
SameLevel(a, b) ==
    \/ a.kind \in UnitLevel /\ b.kind \in UnitLevel
    \/ a.kind \in GenericLevel /\ b.kind \in GenericLevel

\* C15: multiplying or dividing a Dimension, a MeasurementUnit, a
\* GenericDimension or a unit class by a value that is not a descriptor of
\* the same level (None, a number, a string, a list, a plain object) raises
\* InvalidUnitDescriptorBinaryOperation.
C15_NonDescriptorRaises ==
    (/\ call.op \in {"mul", "truediv"}
     /\ call.a.kind \in {"Dimension", "MeasurementUnit", "GenericDimension",
                         "MeasurementUnitType"}
     /\ ~SameLevel(call.a, call.b)) =>
        ret = Raise("InvalidUnitDescriptorBinaryOperation")

\* a Dimension times a string
C15_Witness ==
    /\ call.op = "mul"
    /\ call.a = Dimension("METER", 2)
    /\ call.b = [kind |-> "str"]
    /\ ret = Raise("InvalidUnitDescriptorBinaryOperation")

(***************************************************************************)
(* C16: the string form of a CompositeDimension.                           *)
(***************************************************************************)
\* Dimension x comes before Dimension y: by unit symbol, and by printed form
\* between two Dimensions of one unit
SymbolBefore(x, y) ==
    IF Symbol[x.unit] # Symbol[y.unit]
    THEN StrLess(Symbol[x.unit], Symbol[y.unit])
    ELSE StrLess(Dimension_str(x), Dimension_str(y))

RECURSIVE InsertBySymbol(_, _)
InsertBySymbol(x, s) ==
    IF Len(s) = 0 THEN <<x>>
    ELSE IF SymbolBefore(x, Head(s)) THEN <<x>> \o s
    ELSE <<Head(s)>> \o InsertBySymbol(x, Tail(s))

\* one side's Dimensions ordered by unit symbol
RECURSIVE SortedBySymbol(_)
SortedBySymbol(s) ==
    IF Len(s) = 0 THEN <<>> ELSE InsertBySymbol(Head(s), SortedBySymbol(Tail(s)))

\* the printed forms of a list of Dimensions
Printed(s) == [i \in DOMAIN s |-> Dimension_str(s[i])]

\* each printed form preceded by " / "
RECURSIVE Slashed(_)
Slashed(s) ==
    IF Len(s) = 0 THEN <<>> ELSE <<" ", "/", " ">> \o Head(s) \o Slashed(Tail(s))

\* C16: the string form of a CompositeDimension lists the numerator terms
\* sorted by unit symbol joined by " * ", followed by the denominator terms
\* sorted the same way each preceded by " / "; a term with power p # 1 is
\* printed as "(symbol) ^ p" but is still ordered by its symbol.
C16_StringForm ==
    call.op = "str" =>
        ret.val = Join(<<" ", "*", " ">>, Printed(SortedBySymbol(call.c.numerator)))
                    \o Slashed(Printed(SortedBySymbol(call.c.denominator)))

(***************************************************************************)
(* C17, C18, C19: what simplify() leaves of a CompositeDimension.          *)
(***************************************************************************)
\* the units of the Dimensions of a composite
UnitsIn(c) ==
    {c.numerator[i].unit : i \in DOMAIN c.numerator}
        \cup {c.denominator[i].unit : i \in DOMAIN c.denominator}

\* the places of unit u on a side
Places(side, u) == {i \in DOMAIN side : side[i].unit = u}

\* the side holds unit u once, with power n
HasOnce(side, u, n) ==
    /\ Cardinality(Places(side, u)) = 1
    /\ \A i \in Places(side, u) : side[i].power = n

\* unit u of net power n stands in the composite r as it should: once in
\* the numerator with n > 0, once in the denominator with n < 0, nowhere
\* with n = 0
Placed(r, u, n) ==
    /\ n > 0 => HasOnce(r.numerator, u, n) /\ Places(r.denominator, u) = {}
    /\ n < 0 => HasOnce(r.denominator, u, -n) /\ Places(r.numerator, u) = {}
    /\ n = 0 => Places(r.numerator, u) = {} /\ Places(r.denominator, u) = {}

\* every Dimension of unit u in the composite has a positive power
AllPositive(c, u) ==
    /\ \A i \in Places(c.numerator, u) : c.numerator[i].power > 0
    /\ \A i \in Places(c.denominator, u) : c.denominator[i].power > 0

\* C17: simplify() cancels a unit that stands in the numerator and in the
\* denominator by subtracting the powers: the unit is gone from the side
\* of the smaller power and stays once on the other side with the
\* difference, and it is gone from both sides when the powers are equal.
C17_SimplifyCancels ==
    call.op = "simplify" =>
        \A u \in UnitsIn(call.c) :
            /\ Places(call.c.numerator, u) # {}
            /\ Places(call.c.denominator, u) # {}
            /\ AllPositive(call.c, u)
            => Placed(ret.val, u,
                      PowerSum(call.c.numerator, u)
                          - PowerSum(call.c.denominator, u))

\* K^2 / K has become K
C17_Witness ==
    /\ call.op = "simplify"
    /\ call.c = CompositeDimension(<<Dimension("KELVIN", 2)>>,
                                   <<Dimension("KELVIN", 1)>>)
    /\ ret = Ok(CompositeDimension(<<Dimension("KELVIN", 1)>>, <<>>))

\* every unit of the composite stands in it once, with a positive power
NothingToDo(c) ==
    \A u \in UnitsIn(c) :
        /\ Cardinality(Places(c.numerator, u))
               + Cardinality(Places(c.denominator, u)) = 1
        /\ AllPositive(c, u)

\* C18: simplify() merges the repeated occurrences of one unit on one side
\* into a single Dimension whose power is the sum of theirs, and it merges
\* and cancels Dimensions of the very same unit only: no unit appears that
\* was not there, and a composite in which every unit stands once with a
\* positive power (two units of one family, an aliased unit next to its
\* base units) is left exactly as it was.
C18_SimplifyMerges ==
    call.op = "simplify" =>
        /\ \A u \in UnitsIn(call.c) :
            /\ AllPositive(call.c, u) /\ Places(call.c.denominator, u) = {}
               => /\ HasOnce(ret.val.numerator, u, PowerSum(call.c.numerator, u))
                  /\ Places(ret.val.denominator, u) = {}
            /\ AllPositive(call.c, u) /\ Places(call.c.numerator, u) = {}
               => /\ HasOnce(ret.val.denominator, u,
                             PowerSum(call.c.denominator, u))
                  /\ Places(ret.val.numerator, u) = {}
        /\ UnitsIn(ret.val) \subseteq UnitsIn(call.c)
        /\ NothingToDo(call.c) => ret.val = call.c

\* s * s / R has become s^2 / R
C18_Witness ==
    /\ call.op = "simplify"
    /\ call.c = CompositeDimension(
                    <<Dimension("SECOND", 1), Dimension("SECOND", 1)>>,
                    <<Dimension("RANKINE", 1)>>)
    /\ ret = Ok(CompositeDimension(<<Dimension("SECOND", 2)>>,
                                   <<Dimension("RANKINE", 1)>>))

\* Pa * m * s^2 / kg is what it was
C18_AliasedKept ==
    /\ call.op = "simplify"
    /\ call.c = CompositeDimension(
                    <<Dimension("PASCAL", 1), Dimension("METER", 1),
                      Dimension("SECOND", 2)>>,
                    <<Dimension("KILO_GRAM", 1)>>)
    /\ ret = Ok(call.c)

\* m / km is what it was
C18_FamilyKept ==
    /\ call.op = "simplify"
    /\ call.c = CompositeDimension(<<Dimension("METER", 1)>>,
                                   <<Dimension("KILO_METER", 1)>>)
    /\ ret = Ok(call.c)

\* C19: after simplify() no Dimension of the composite has a negative
\* power: a unit that had a Dimension of negative power stands once on the
\* side its net power (numerator powers minus denominator powers) puts it
\* on, with the positive power, also when it was on both sides.
C19_SimplifyNoNegativePower ==
    call.op = "simplify" =>
        /\ \A i \in DOMAIN ret.val.numerator : ~(ret.val.numerator[i].power < 0)
        /\ \A i \in DOMAIN ret.val.denominator :
               ~(ret.val.denominator[i].power < 0)
        /\ \A u \in UnitsIn(call.c) :
               ~AllPositive(call.c, u)
               => Placed(ret.val, u,
                         PowerSum(call.c.numerator, u)
                             - PowerSum(call.c.denominator, u))

\* ft^-1 / ft^-2 has become ft, with nothing in the denominator
C19_Witness ==
    /\ call.op = "simplify"
    /\ call.c = CompositeDimension(<<Dimension("FOOT", -1)>>,
                                   <<Dimension("FOOT", -2)>>)
    /\ ret = Ok(CompositeDimension(<<Dimension("FOOT", 1)>>, <<>>))

(***************************************************************************)
(* C20: to_si().                                                           *)
(***************************************************************************)
\* the SI member of each family: kelvin, meter, kilogram, mol, second
SiMember(u) ==
    CASE u \in TemperatureUnit -> "KELVIN"
      [] u \in LengthUnit -> "METER"
      [] u \in MassUnit -> "KILO_GRAM"
      [] u \in AmountUnit -> "MOL"
      [] u \in TimeUnit -> "SECOND"

\* a side with the SI member in place of every unit, power and place kept
InSiSide(side) ==
    [i \in DOMAIN side |-> [side[i] EXCEPT !.unit = SiMember(side[i].unit)]]

\* a descriptor with the SI member in place of every unit
InSi(d) ==
    IF d.kind = "CompositeDimension"
    THEN [d EXCEPT !.numerator = InSiSide(d.numerator),
                   !.denominator = InSiSide(d.denominator)]
    ELSE [d EXCEPT !.unit = SiMember(d.unit)]

\* the property p is cls(value, unit)
IsProperty(p, cls, value, unit) ==
    p = Property(cls, value, unit)

C20_Volume ==
    /\ call.op = "to_si"
    /\ IsProperty(prop, "Volume", FromInt(10), Dimension("CENTI_METER", 3))
    /\ ret = Ok(Property("Volume", Q(1, 100000), Dimension("METER", 3)))

\* 10 tonnes a day have become 10 * 1000 / 86400 kg/s
C20_MassRate ==
    /\ call.op = "to_si"
    /\ IsProperty(prop, "MassRate", FromInt(10),
                  Over(Unit("METRIC_TONNE"), Unit("DAY")))
    /\ ret = Ok(Property("MassRate", Q(10000, 86400), Over(KG, Unit("SECOND"))))

\* 10 mm have become 0.01 m
C20_Length ==
    /\ call.op = "to_si"
    /\ IsProperty(prop, "Length", FromInt(10), Unit("MILLI_METER"))
    /\ ret = Ok(Property("Length", Q(1, 100), Unit("METER")))

(***************************************************************************)
(* C21: to_unit of an Exponent property.                                   *)
(***************************************************************************)
\* d is a Dimension of a length unit to the third power
IsCubicLength(d) ==
    /\ d.kind = "Dimension"
    /\ d.unit \in LengthUnit
    /\ d.power = 3

\* value * factor * factor * factor
TimesCubed(value, factor) == RMul(RMul(RMul(value, factor), factor), factor)

\* C21: to_unit of a Volume between two Dimensions of a length unit cubed
\* returns a Volume in the target Dimension whose value is the value
\* multiplied by get_factor(from unit, to unit) to the third power.
C21_ExponentFactor ==
    (/\ call.op = "to_unit"
     /\ prop.cls = "Volume"
     /\ IsCubicLength(prop.unit_descriptor)
     /\ IsCubicLength(call.unit))
    => ret = Ok(Property("Volume",
                    TimesCubed(prop.value,
                        LengthUnitConverter_get_factor(
                            Unit(prop.unit_descriptor.unit),
                            Unit(call.unit.unit)).val),
                    call.unit))

\* 10 m^3 have become 10 000 000 cm^3
C21_Witness ==
    /\ call.op = "to_unit"
    /\ prop = Property("Volume", FromInt(10), Dimension("METER", 3))
    /\ call.unit = Dimension("CENTI_METER", 3)
    /\ ret = Ok(Property("Volume", FromInt(10000000), Dimension("CENTI_METER", 3)))

(***************************************************************************)
(* C22: division of unit descriptors.                                      *)
(***************************************************************************)
\* the numerator of a unit descriptor: a unit or a Dimension is its own
NumeratorOf(x) ==
    CASE x.kind = "MeasurementUnit" -> <<Dimension(x.unit, 1)>>
      [] x.kind = "Dimension" -> <<x>>
      [] x.kind = "CompositeDimension" -> x.numerator

\* the denominator of a unit descriptor: a unit or a Dimension has none
DenominatorOf(x) ==
    IF x.kind = "CompositeDimension" THEN x.denominator ELSE <<>>

\* C22: for units, Dimensions and CompositeDimensions x and y, x / y is the
\* CompositeDimension whose numerator holds the terms of the numerator of x
\* and of the denominator of y, and whose denominator holds the terms of
\* the denominator of x and of the numerator of y, each as often as there.
C22_DivisionBags ==
    (/\ call.op = "truediv"
     /\ call.a.kind \in UnitLevel
     /\ call.b.kind \in UnitLevel)
    => /\ ret.exc = ""
       /\ ret.val.kind = "CompositeDimension"
       /\ SameBag(ret.val.numerator,
                  NumeratorOf(call.a) \o DenominatorOf(call.b))
       /\ SameBag(ret.val.denominator,
                  DenominatorOf(call.a) \o NumeratorOf(call.b))

(***************************************************************************)
(* C23, C24: what the algebra operators do to their operands.              *)
(***************************************************************************)
\* a term of a composite as a Dimension: the object it refers to
Deref(h, t) == IF "ref" \in DOMAIN t THEN h[t.ref] ELSE t

\* the descriptor that the object at place i is, the Dimensions of a
\* composite looked up
ValueAt(h, i) ==
    IF h[i].kind \in {"Dimension", "GenericDimension"} THEN h[i]
    ELSE [h[i] EXCEPT
            !.numerator = [k \in DOMAIN @ |-> Deref(h, @[k])],
            !.denominator = [k \in DOMAIN @ |-> Deref(h, @[k])]]

\* C23: d ** n on a Dimension or GenericDimension d returns a new
\* descriptor and leaves d as it was, so every object built before the
\* call, a composite that holds d included, is the descriptor it was: the
\* same powers, hence the same string and the same equalities.
C23_PowLeavesOperand ==
    [][call'.op = "pow_object" =>
        /\ ret'.val \notin DOMAIN heap
        /\ \A i \in DOMAIN heap : ValueAt(heap', i) = ValueAt(heap, i)]_vars

\* C24: multiplying or dividing a CompositeDimension by another descriptor
\* returns a new CompositeDimension and leaves the numerator and the
\* denominator list of either operand as long as they were, with the same
\* Dimensions in them.
C24_OperandsKept ==
    [][call'.op \in {"mul_objects", "truediv_objects"} =>
        /\ \A i \in DOMAIN heap : heap'[i] = heap[i]
        /\ ret'.exc = "" => ret'.val \notin DOMAIN heap]_vars

\* a composite of one Dimension over another was multiplied by a composite:
\* the product is a third object, and the left operand still has its one
\* Dimension on each side
C24_Witness ==
    /\ call.op = "mul_objects"
    /\ heap[call.a].kind = "CompositeDimension"
    /\ heap[call.b].kind = "CompositeDimension"
    /\ ret.exc = ""
    /\ ret.val \notin {call.a, call.b}
    /\ Len(heap[call.a].numerator) = 1
    /\ Len(heap[call.a].denominator) = 1
    /\ Len(heap[ret.val].numerator) = 2
    /\ Len(heap[ret.val].denominator) = 2

(***************************************************************************)
(* C25, C26: the registry under register_converter and the other calls.    *)
(***************************************************************************)
\* what get_converter(g) returns or raises with the registry d
Found(d, g) == ConverterAt(d, Lookup(d, g))

\* C25: after register_converter(key)(cls), get_converter(g) returns cls
\* for every g equal to key, whatever was registered before and without an
\* exception, and returns or raises what it did before for every other g;
\* so after any sequence of registrations the most recent one under a key
\* equal to g decides get_converter(g).
C25_LastRegistrationWins ==
    [][call'.op = "register_converter" =>
        /\ ret' = Ok(call'.cls)
        /\ \A g \in LookupKeys :
            IF Generic_eq(g, call'.generic)
            THEN Found(_converters', g) = Ok(call'.cls)
            ELSE Found(_converters', g) = Found(_converters, g)]_vars

\* C26: no call but register_converter changes the registry: get_converter,
\* found or not, convert and get_factor of every converter, the
\* construction of a property, to_unit and to_base_units leave the
\* registered keys and their converters as they were, whether they return
\* or raise.
C26_RegistryReadOnly ==
    [][call'.op # "register_converter" => _converters' = _converters]_vars

\* get_converter did not find LengthUnit ** 2, and the registry is the one
\* the import left
C26_Witness ==
    /\ call.op = "get_converter"
    /\ call.generic = Pow(UnitClass("LengthUnit"), 2)
    /\ ret = Raise("UndefinedConverter")
    /\ _converters = Imported(Len(Decorations))

(***************************************************************************)
(* C27: to_unit and to_base_units and the property they are called on.     *)
(***************************************************************************)
\* the descriptor the call converts to: the unit it is given, or the base
\* units of the class
TargetOf(c) ==
    IF c.op = "to_unit" THEN c.unit
    ELSE reference_unit_mapping[prop.cls].composite

\* the unit the value is converted to: the unit the call is given, or the
\* reference unit of the class
ConvertedTo(c) ==
    IF c.op = "to_unit" THEN c.unit
    ELSE reference_unit_mapping[prop.cls].alias

\* two descriptors are the same Dimensions in the same places, a unit
\* being the Dimension of power 1 of itself
SameDimensions(x, y) ==
    /\ NumeratorOf(x) = NumeratorOf(y)
    /\ DenominatorOf(x) = DenominatorOf(y)

C27_BaseUnits ==
    /\ call.op = "to_base_units"
    /\ prop = Property("Pressure", FromInt(10), Unit("BAR"))
    /\ ret.exc = ""
    /\ ret.val.value = FromInt(1000000)

(***************************************************************************)
(* C28: equality and hash of composites.                                   *)
(***************************************************************************)
\* x == y for two composites of one level
Composite_eq(x, y) ==
    IF x.kind = "CompositeDimension" THEN CompositeDimension_eq(x, y)
    ELSE GenericCompositeDimension_eq(x, y)

\* the composites a product or a quotient is compared with
Composites ==
    {y \in AlgebraPool :
        y.kind \in {"CompositeDimension", "GenericCompositeDimension"}}

\* C28: a CompositeDimension or GenericCompositeDimension that * or / built
\* has the hash of every composite it is equal to, a repeated Dimension on
\* one side or not.
C28_EqualHashes ==
    (call.op \in {"mul", "truediv"} /\ ret.exc = "") =>
        \A y \in Composites :
            Composite_eq(ret.val, y) => Hash(ret.val) = Hash(y)

\* C29: once converters.py is imported, every concrete property class of
\* properties.py declares a generic_descriptor and a converter is registered
\* for it, so to_unit on a property of any class never raises
\* UndefinedConverter and never fails for lack of a generic descriptor.
C29_EveryClassHasConverter ==
    /\ \A cls \in PropertyClasses :
        /\ generic_descriptor[cls] # None
        /\ _converters = Imported(Len(Decorations)) =>
                _get_converter(cls).exc = ""
    /\ (call.op = "to_unit" /\ prop # None) =>
            ret.exc \notin {"UndefinedConverter", "AttributeError"}

\* the to_unit half alone: no to_unit call ends in UndefinedConverter
C29_ToUnitFindsConverter ==
    (call.op = "to_unit" /\ prop # None) => ret.exc # "UndefinedConverter"

\* the to_unit half alone: no to_unit call ends in AttributeError
C29_ToUnitFindsDescriptor ==
    (call.op = "to_unit" /\ prop # None) => ret.exc # "AttributeError"

\* the call is get_factor of an absolute converter for two units of its family
OwnPair ==
    /\ call.op = "get_factor"
    /\ call.from.kind = "MeasurementUnit"
    /\ call.to.kind = "MeasurementUnit"
    /\ call.from.unit \in Members[FamilyOf(call.cls)]
    /\ call.to.unit \in Members[FamilyOf(call.cls)]

\* C30: for every absolute converter and every pair of units of its family
\* get_factor(from, to) is strictly positive, and so convert never turns a
\* non-zero value into 0.
C30_PositiveFactor ==
    /\ OwnPair => (ret.exc = "" /\ ret.val.n > 0)
    /\ (/\ call.op = "convert"
        /\ call.cls \in AbsoluteConverters
        /\ call.from.kind = "MeasurementUnit"
        /\ call.to.kind = "MeasurementUnit"
        /\ call.from.unit \in Members[FamilyOf(call.cls)]
        /\ call.to.unit \in Members[FamilyOf(call.cls)]
        /\ call.value # Zero) =>
            (ret.exc = "" /\ ret.val # Zero)

\* the factor is positive for every pair but those with EnergyUnit.MEGA_JOULE
C30_PositiveButMegaJoule ==
    OwnPair =>
        /\ ret.exc = ""
        /\ IF "MEGA_JOULE" \in {call.from.unit, call.to.unit}
           THEN ret.val = Zero ELSE ret.val.n > 0

====
